---- MODULE Spec2Model ----
(***************************************************************************)
(* OAuth provisioning and credential-flow manager of gcli2api              *)
(* (src/src/auth_api.py): the flow store, the callback listener, the two   *)
(* completion entry points with their waiters, the expiry sweep and the    *)
(* count-based eviction.                                                   *)
(*                                                                         *)
(* Time is counted in half-seconds (the blocking waiter sleeps 0.5 s), so  *)
(* a duration of n seconds is Sec(n) ticks.  Python's None is the string   *)
(* "None"; the empty string is "".                                         *)
(***************************************************************************)
EXTENDS Integers, Sequences, FiniteSets, TLC

VARIABLES
    auth_flows,   \* the dict's keys (state tokens) in insertion order
    heap,         \* the flow_data dict object registered under each token
    servers,      \* callback port -> "serving" | "shutting" | "closed"
    now,          \* time.time(), in ticks
    instants,     \* the instants at which callers and callbacks act
    procs,        \* the running completion calls
    files,        \* CREDENTIALS_DIR: file name -> [project_id, token]
    nCreate,      \* create_auth_url calls so far (one uuid4 each)
    nCall,        \* completion calls started so far
    last,         \* what the last operation answered
    auth_tokens,  \* the panel tokens: token -> time.time() at issue
    nToken,       \* generate_auth_token calls so far (one random token each)
    threads,      \* the position of each handler that runs in a thread of its own
    oauthlib,     \* oauthlib.oauth2.rfc6749.parameters, and what each call saved of it
    stream        \* a stream_generator of fake_stream_response and its request task

vars == <<auth_flows, heap, servers, now, instants, procs, files, nCreate, nCall, last,
          auth_tokens, nToken, threads, oauthlib, stream>>

----------------------------------------------------------------------------
(* Program constants *)

EXPIRY_TIME == 600
DEFAULT_CALLBACK_PORT == 8080
PORT_SCAN == 100
SYNC_TIMEOUT == 300
max_wait_time == 60
wait_interval == 1
EVICT_KEEP == 10
TOKEN_EXPIRY == 21600

(* Bounds of the model *)

MaxCreates == 2
MaxCalls == 1
MaxOsPorts == 2
MaxTokens == 2
MaxFiles == 3
MaxOverlap == 2
MaxCandidates == 3
MaxBound == 3
MaxBeats == 2
MaxAttempts == 3

----------------------------------------------------------------------------
(* Values *)

None == "None"

Never == 0 - 1

Truthy(v) == v # None /\ v # ""

Sec(n) == n + n

\* time.sleep(0.5) of wait_for_callback_sync, in ticks
SyncInterval == Sec(1) \div 2

AsyncInterval == Sec(wait_interval)

Sessions == {None, "u1"}

\* project ids given to create_auth_url and to the completion calls
CreatePids == {None, "p1"}

CallPids == {None, "p1"}

Codes == {"X", "Y"}

Procs == {"c1", "c2"}

\* a call takes the first free one of the call names
ProcOrder == [p \in Procs |-> IF p = "c1" THEN 1 ELSE 2]

Variants == {"sync", "async"}

Min(S) == CHOOSE x \in S : \A y \in S : x <= y

Range(seq) == {seq[i] : i \in 1..Len(seq)}

----------------------------------------------------------------------------
(* State tokens: f"{user_session}_{uuid4}" or the bare uuid4.  The n-th     *)
(* uuid4 drawn is the number n: two draws never give the same value.       *)

\* variant: the token without its uuid4
MakeStateNoUuid(user_session, u) ==
    IF Truthy(user_session) THEN <<user_session, 0>> ELSE <<"", 0>>

MakeState(user_session, u) ==
    IF Truthy(user_session) THEN <<user_session, u>> ELSE <<"", u>>

NoState == <<None, 0>>

\* a state no flow was ever created under
UnknownState == <<"", 0>>

----------------------------------------------------------------------------
(* Flow records.  dict.clear() leaves an empty dict: every .get() of it     *)
(* answers None.                                                           *)

NewFlow(project_id, user_session, port, t) ==
    [ project_id |-> project_id,
      user_session |-> user_session,
      callback_port |-> port,
      server |-> port,
      code |-> None,
      completed |-> FALSE,
      created_at |-> t,
      auto_project_detection |-> (project_id = None),
      cleared |-> FALSE ]

ClearedFlow ==
    [ project_id |-> None,
      user_session |-> None,
      callback_port |-> 0,
      server |-> 0,
      code |-> None,
      completed |-> FALSE,
      created_at |-> 0,
      auto_project_detection |-> FALSE,
      cleared |-> TRUE ]

InStore(s) == s \in Range(auth_flows)

Remove(keys, gone) == SelectSeq(keys, LAMBDA k : k \notin gone)

----------------------------------------------------------------------------
(* async_shutdown_server: starts the shutdown supervisor thread and         *)
(* returns at once.                                                        *)

\* variant: no shutdown is started
async_shutdown_serverNotStarted(srv, ports) == srv

async_shutdown_server(srv, ports) ==
    [p \in DOMAIN srv |-> IF p \in ports /\ srv[p] = "serving" THEN "shutting" ELSE srv[p]]

----------------------------------------------------------------------------
(* cleanup_expired_flows *)

\* variant: a flow expires at the age of EXPIRY_TIME
ExpiredAtTtl(flow_data, current_time) ==
    current_time - flow_data.created_at >= Sec(EXPIRY_TIME)

Expired(flow_data, current_time) ==
    current_time - flow_data.created_at > Sec(EXPIRY_TIME)

states_to_remove(keys, hp, current_time) ==
    {s \in Range(keys) : Expired(hp[s], current_time)}

\* variant: the sweep removes nothing
cleanup_expired_flowsKeepsAll(keys, hp, srv, current_time) ==
    [ keys |-> keys, heap |-> hp, servers |-> srv ]

cleanup_expired_flows(keys, hp, srv, current_time) ==
    LET gone == states_to_remove(keys, hp, current_time)
    IN  [ keys |-> Remove(keys, gone),
          heap |-> [s \in DOMAIN hp |-> IF s \in gone THEN ClearedFlow ELSE hp[s]],
          servers |-> async_shutdown_server(srv, {hp[s].server : s \in gone}) ]

----------------------------------------------------------------------------
(* cleanup_auth_flows_for_memory: the sweep, then the count-based eviction. *)
(* sorted(..., reverse=True) is stable: flows with equal created_at keep    *)
(* their dict order.                                                       *)

RECURSIVE InsertDesc(_, _, _)
InsertDesc(sorted, k, hp) ==
    IF sorted = <<>> THEN <<k>>
    ELSE IF hp[Head(sorted)].created_at >= hp[k].created_at
         THEN <<Head(sorted)>> \o InsertDesc(Tail(sorted), k, hp)
         ELSE <<k>> \o sorted

\* variant: the flows are left in dict order
sorted_flowsDictOrder(keys, hp) == keys

RECURSIVE sorted_flows(_, _)
sorted_flows(keys, hp) ==
    IF keys = <<>> THEN <<>>
    ELSE InsertDesc(sorted_flows(SubSeq(keys, 1, Len(keys) - 1), hp), keys[Len(keys)], hp)

cleanup_auth_flows_for_memory(keys, hp, srv, current_time) ==
    LET swept == cleanup_expired_flows(keys, hp, srv, current_time)
    IN  IF Len(swept.keys) > EVICT_KEEP
        THEN LET new_auth_flows == SubSeq(sorted_flows(swept.keys, swept.heap), 1, EVICT_KEEP)
                 dropped == Range(swept.keys) \ Range(new_auth_flows)
             IN  [ keys |-> new_auth_flows,
                   heap |-> [s \in DOMAIN swept.heap |->
                                IF s \in dropped THEN ClearedFlow ELSE swept.heap[s]],
                   servers |-> async_shutdown_server(swept.servers,
                                                     {swept.heap[s].server : s \in dropped}) ]
        ELSE swept

----------------------------------------------------------------------------
(* find_available_port: the first port of [start, start+100) that can be    *)
(* bound, else a port the OS assigns, else RuntimeError (no port).         *)

ScanPorts == DEFAULT_CALLBACK_PORT .. (DEFAULT_CALLBACK_PORT + PORT_SCAN - 1)

OsPorts == (DEFAULT_CALLBACK_PORT + PORT_SCAN) .. (DEFAULT_CALLBACK_PORT + PORT_SCAN + MaxOsPorts - 1)

Bound(srv) == {p \in DOMAIN srv : srv[p] # "closed"}

\* variant: any port of the range that can be bound
find_available_portAnyFree(srv) ==
    LET free == ScanPorts \ Bound(srv)
    IN  IF free # {} THEN free ELSE OsPorts \ Bound(srv)

find_available_port(srv) ==
    LET free == ScanPorts \ Bound(srv)
    IN  IF free # {} THEN {Min(free)} ELSE OsPorts \ Bound(srv)

----------------------------------------------------------------------------
(* create_auth_url(project_id, user_session).  fail names the step that     *)
(* raises, if any: "port" (every bind of find_available_port is refused),   *)
(* "server" (create_callback_server or the thread start), "flow"            *)
(* (Flow.from_client_config or authorization_url).                          *)

CreateFailures == {"none", "port", "server", "flow"}

\* variant: the flow is put into the store before the listener is started
create_auth_urlRegisterFirst(project_id, user_session, fail) ==
    IF fail = "port" \/ find_available_port(servers) = {}
    THEN /\ last' = [op |-> "create", success |-> FALSE, state |-> NoState, port |-> 0]
         /\ UNCHANGED <<auth_flows, heap, servers>>
    ELSE \E callback_port \in find_available_port(servers) :
         LET state == MakeState(user_session, nCreate + 1)
             flow_data == NewFlow(project_id, user_session, callback_port, now)
         IN  /\ auth_flows' = Append(auth_flows, state)
             /\ heap' = (state :> flow_data) @@ heap
             /\ servers' = IF fail = "server" THEN servers
                           ELSE (callback_port :> "serving") @@ servers
             /\ last' = [op |-> "create", success |-> (fail = "none"),
                         state |-> IF fail = "none" THEN state ELSE NoState,
                         port |-> callback_port]

create_auth_url(project_id, user_session, fail) ==
    IF fail = "port" \/ find_available_port(servers) = {}
    THEN /\ last' = [op |-> "create", success |-> FALSE, state |-> NoState, port |-> 0]
         /\ UNCHANGED <<auth_flows, heap, servers>>
    ELSE \E callback_port \in find_available_port(servers) :
         IF fail = "server"
         THEN /\ last' = [op |-> "create", success |-> FALSE, state |-> NoState, port |-> callback_port]
              /\ UNCHANGED <<auth_flows, heap, servers>>
         ELSE LET started == (callback_port :> "serving") @@ servers
              IN  IF fail = "flow"
                  THEN /\ servers' = started
                       /\ last' = [op |-> "create", success |-> FALSE, state |-> NoState, port |-> callback_port]
                       /\ UNCHANGED <<auth_flows, heap>>
                  ELSE LET state == MakeState(user_session, nCreate + 1)
                           flow_data == NewFlow(project_id, user_session, callback_port, now)
                           stored == IF InStore(state) THEN auth_flows ELSE Append(auth_flows, state)
                           swept == cleanup_expired_flows(stored, (state :> flow_data) @@ heap,
                                                          started, now)
                       IN  /\ auth_flows' = swept.keys
                           /\ heap' = swept.heap
                           /\ servers' = swept.servers
                           /\ last' = [op |-> "create", success |-> TRUE, state |-> state, port |-> callback_port]

CreateAuthUrl(pids, sessions, fails) ==
    /\ now \in instants
    /\ nCreate < MaxCreates
    /\ nCreate' = nCreate + 1
    /\ \E project_id \in pids, user_session \in sessions, fail \in fails :
           create_auth_url(project_id, user_session, fail)
    /\ UNCHANGED <<stream, oauthlib, now, instants, procs, files, nCall, auth_tokens, nToken, threads>>

----------------------------------------------------------------------------
(* AuthCallbackHandler.do_GET on the listener bound to port: the request   *)
(* carries the query parameters code and state (None when absent).  A call  *)
(* that waits for this flow notes when its first code was stored           *)
(* (stored_at, a history field no code reads).                             *)

StoredUnder(proc, state) ==
    proc.pc = "wait" /\ proc.state = state /\ proc.stored_at = Never

\* variant: the handler looks the state up among all records ever made
do_GETAnyRecord(port, code, state) ==
    IF Truthy(code) /\ state \in DOMAIN heap
    THEN /\ heap' = [heap EXCEPT ![state].code = code, ![state].completed = TRUE]
         /\ procs' = procs
         /\ last' = [op |-> "callback", port |-> port, status |-> 200, state |-> state, code |-> code]
    ELSE /\ heap' = heap
         /\ procs' = procs
         /\ last' = [op |-> "callback", port |-> port, status |-> 400, state |-> state, code |-> code]

do_GET(port, code, state) ==
    IF Truthy(code) /\ state # NoState /\ InStore(state)
    THEN /\ heap' = [heap EXCEPT ![state].code = code, ![state].completed = TRUE]
         /\ procs' = [q \in Procs |-> IF StoredUnder(procs[q], state)
                                       THEN [procs[q] EXCEPT !.stored_at = now] ELSE procs[q]]
         /\ last' = [op |-> "callback", port |-> port, status |-> 200, state |-> state, code |-> code]
    ELSE /\ heap' = heap
         /\ procs' = procs
         /\ last' = [op |-> "callback", port |-> port, status |-> 400, state |-> state, code |-> code]

Callback(codes, anyState) ==
    /\ now \in instants
    /\ \E port \in DOMAIN servers, code \in codes,
          state \in IF anyState THEN {NoState, UnknownState} \cup DOMAIN heap
                    ELSE Range(auth_flows) :
        /\ servers[port] # "closed"
        /\ do_GET(port, code, state)
    /\ UNCHANGED <<stream, oauthlib, auth_flows, servers, now, instants, files, nCreate, nCall,
                 auth_tokens, nToken, threads>>

----------------------------------------------------------------------------
(* do_shutdown of the supervisor thread: server.shutdown() and             *)
(* server_close() release the port.                                        *)

ServerClose ==
    /\ \E port \in DOMAIN servers :
        /\ servers[port] = "shutting"
        /\ servers' = [servers EXCEPT ![port] = "closed"]
    /\ last' = [op |-> "none"]
    /\ UNCHANGED <<stream, oauthlib, auth_flows, heap, now, instants, procs, files, nCreate, nCall,
                 auth_tokens, nToken, threads>>

----------------------------------------------------------------------------
(* The memory manager calls the registered cleanup. *)

MemoryCleanup ==
    /\ now \in instants
    /\ LET res == cleanup_auth_flows_for_memory(auth_flows, heap, servers, now)
       IN  /\ auth_flows' = res.keys
           /\ heap' = res.heap
           /\ servers' = res.servers
           /\ last' = [op |-> "cleanup"]
    /\ UNCHANGED <<stream, oauthlib, now, instants, procs, files, nCreate, nCall, auth_tokens, nToken, threads>>

----------------------------------------------------------------------------
(* Strings that are searched: their characters, and str.lower().           *)

Chars(s) ==
    CASE s = "p1" -> <<"p", "1">>
      [] s = "p2" -> <<"p", "2">>
      [] s = "my-Default" -> <<"m", "y", "-", "D", "e", "f", "a", "u", "l", "t">>
      [] s = "Alpha" -> <<"A", "l", "p", "h", "a">>
      [] s = "Beta" -> <<"B", "e", "t", "a">>
      [] s = "DEFAULT one" -> <<"D", "E", "F", "A", "U", "L", "T", " ", "o", "n", "e">>
      [] OTHER -> <<>>

LowerChar(c) ==
    CASE c = "A" -> "a" [] c = "B" -> "b" [] c = "D" -> "d" [] c = "E" -> "e"
      [] c = "F" -> "f" [] c = "L" -> "l" [] c = "T" -> "t" [] c = "U" -> "u"
      [] OTHER -> c

\* variant: the letters keep their case
lowerKeepsCase(cs) == cs

lower(cs) == [i \in 1..Len(cs) |-> LowerChar(cs[i])]

Contains(hay, needle) ==
    \E i \in 1..(Len(hay) - Len(needle) + 1) : SubSeq(hay, i, i + Len(needle) - 1) = needle

DefaultWord == <<"d", "e", "f", "a", "u", "l", "t">>

----------------------------------------------------------------------------
(* The projects:search response and get_user_projects.  A project without  *)
(* a projectId key has projectId None.                                     *)

P1 == [projectId |-> "p1", displayName |-> "Alpha", state |-> "ACTIVE", projectNumber |-> "101"]

P2 == [projectId |-> "p2", displayName |-> "Beta", state |-> "ACTIVE", projectNumber |-> "102"]

PDef == [projectId |-> "my-Default", displayName |-> "Beta", state |-> "ACTIVE", projectNumber |-> "103"]

PNoId == [projectId |-> None, displayName |-> "Alpha", state |-> "ACTIVE", projectNumber |-> "104"]

PGone == [projectId |-> "p1", displayName |-> "Alpha", state |-> "DELETE_REQUESTED", projectNumber |-> "101"]

PNamed == [projectId |-> "p1", displayName |-> "DEFAULT one", state |-> "ACTIVE", projectNumber |-> "105"]

\* status 0: the request raised and there is no response
ListResponses ==
    { [status |-> 200, projects |-> <<>>],
      [status |-> 200, projects |-> <<P1>>],
      [status |-> 200, projects |-> <<PGone, P2>>],
      [status |-> 200, projects |-> <<P2, P1>>],
      [status |-> 200, projects |-> <<P1, PDef, P2>>],
      [status |-> 200, projects |-> <<PNoId, P2>>],
      [status |-> 200, projects |-> <<PNoId>>],
      [status |-> 200, projects |-> <<PGone>>],
      [status |-> 403, projects |-> <<P1>>],
      [status |-> 0, projects |-> <<>>] }

get_user_projects(response) ==
    IF response.status = 200
    THEN SelectSeq(response.projects, LAMBDA project : project.state = "ACTIVE")
    ELSE <<>>

\* project.get(key, '')
GetOrEmpty(v) == IF v = None THEN "" ELSE v

IsDefaultProject(project) ==
    \/ Contains(lower(Chars(GetOrEmpty(project.displayName))), DefaultWord)
    \/ Contains(lower(Chars(GetOrEmpty(project.projectId))), DefaultWord)

\* variant: without a "default" match no project is picked
select_default_projectMatchOnly(projects) ==
    IF projects = <<>> THEN None
    ELSE LET hits == {i \in 1..Len(projects) : IsDefaultProject(projects[i])}
         IN  IF hits # {} THEN GetOrEmpty(projects[Min(hits)].projectId)
             ELSE ""

select_default_project(projects) ==
    IF projects = <<>> THEN None
    ELSE LET hits == {i \in 1..Len(projects) : IsDefaultProject(projects[i])}
         IN  IF hits # {} THEN GetOrEmpty(projects[Min(hits)].projectId)
             ELSE GetOrEmpty(projects[1].projectId)

available_projects(user_projects) ==
    [i \in 1..Len(user_projects) |->
        [ projectId |-> user_projects[i].projectId,
          name |-> IF Truthy(user_projects[i].displayName)
                   THEN user_projects[i].displayName ELSE user_projects[i].projectId,
          projectNumber |-> user_projects[i].projectNumber ]]

----------------------------------------------------------------------------
(* auto_detect_project_id: the metadata endpoint (None unless it answers    *)
(* 200), then `gcloud config get-value project` (None when it fails).       *)

MetaAnswers == {None, "pm"}

GcloudAnswers == {None, "(unset)", "pg"}

\* variant: the gcloud configuration is read before the metadata endpoint
auto_detect_project_idCliFirst(meta, gcloud) ==
    IF gcloud # None /\ gcloud # "" /\ gcloud # "(unset)" THEN gcloud
    ELSE IF meta # None THEN meta
    ELSE None

auto_detect_project_id(meta, gcloud) ==
    IF meta # None THEN meta
    ELSE IF gcloud # None /\ gcloud # "" /\ gcloud # "(unset)" THEN gcloud
    ELSE None

----------------------------------------------------------------------------
(* The completion calls.  A call runs on the event loop; it gives the loop  *)
(* up only at an await.  From the moment the blocking waiter starts, and    *)
(* during fetch_token, the call keeps the loop.                            *)

NoResult ==
    [ success |-> FALSE, error |-> "none", cause |-> "none",
      requires_manual_project_id |-> FALSE, requires_project_selection |-> FALSE,
      available_projects |-> <<>>, project_id |-> None, file_path |-> <<None, 0>>,
      auto_detected_project |-> FALSE ]

IdleProc ==
    [ id |-> "c1", pc |-> "idle", variant |-> "async", arg_pid |-> None, user_session |-> None,
      project_id |-> None, state |-> NoState, start |-> 0, wake |-> 0, waited |-> 0,
      auth_code |-> None, detected |-> "unasked", listed |-> FALSE, user_projects |-> <<>>,
      apis |-> "uncalled", saves |-> 0, stored_at |-> Never, result |-> NoResult ]

Failure(error) == [NoResult EXCEPT !.error = error]

\* validate_token_parameters as a value: <<>> is the library's function,
\* Append(f, p) the patched_validate that call p defined around f.
\* original_validate[p] is the local variable of call p.
Unpatched ==
    [ validate_token_parameters |-> <<>>,
      original_validate |-> [p \in Procs |-> <<>>] ]

\* original_validate = ...validate_token_parameters and the assignment of
\* patched_validate
Patch(lib, p) ==
    [ validate_token_parameters |-> Append(lib.validate_token_parameters, p),
      original_validate |-> [lib.original_validate EXCEPT ![p] = lib.validate_token_parameters] ]

\* the finally clause
Restore(lib, p) ==
    [lib EXCEPT !.validate_token_parameters = lib.original_validate[p]]

\* variant: the answer does not ask for a project id
ManualFailureUnflagged(error) == [NoResult EXCEPT !.error = error]

ManualFailure(error) == [NoResult EXCEPT !.error = error, !.requires_manual_project_id = TRUE]

Done(proc, result) == [proc EXCEPT !.pc = "done", !.result = result]

HoldsLoop(proc) == proc.pc = "exchange" \/ (proc.variant = "sync" /\ proc.pc = "wait")

LoopFree(p) == \A q \in Procs \ {p} : ~HoldsLoop(procs[q])

\* the two lookup loops of complete_auth_flow / asyncio_complete_auth_flow:
\* the first tests data['project_id'] == project_id, the second
\* data.get('auto_project_detection', False)
Matches(data, project_id) ==
    IF project_id # None THEN data.project_id = project_id ELSE data.auto_project_detection

RECURSIVE ScanFlows(_, _, _, _, _)
ScanFlows(keys, hp, project_id, user_session, state) ==
    IF keys = <<>> THEN state
    ELSE LET s == Head(keys)
         IN  IF Matches(hp[s], project_id)
             THEN IF Truthy(user_session) /\ hp[s].user_session = user_session
                  THEN s
                  ELSE ScanFlows(Tail(keys), hp, project_id, user_session,
                                 IF state = NoState THEN s ELSE state)
             ELSE ScanFlows(Tail(keys), hp, project_id, user_session, state)

\* variant: a call with a project id looks among the flows of that project only
FindFlowProjectOnly(keys, hp, project_id, user_session) ==
    IF Truthy(project_id)
    THEN ScanFlows(keys, hp, project_id, user_session, NoState)
    ELSE ScanFlows(keys, hp, None, user_session, NoState)

\* variant: the lookup takes the first matching flow whatever its session
FindFlowFirstMatch(keys, hp, project_id, user_session) ==
    LET byProject == IF Truthy(project_id)
                     THEN ScanFlows(keys, hp, project_id, None, NoState)
                     ELSE NoState
    IN  IF byProject # NoState THEN byProject
        ELSE ScanFlows(keys, hp, None, None, NoState)

FindFlow(keys, hp, project_id, user_session) ==
    LET byProject == IF Truthy(project_id)
                     THEN ScanFlows(keys, hp, project_id, user_session, NoState)
                     ELSE NoState
    IN  IF byProject # NoState THEN byProject
        ELSE ScanFlows(keys, hp, None, user_session, NoState)

\* what follows the project-id checks: the blocking variant reads
\* flow_data['flow'] (KeyError on a cleared record) and waits only when the
\* record has no code; the cooperative variant enters its wait loop.
EnterWait(proc, hp) ==
    IF proc.variant = "async"
    THEN [proc EXCEPT !.pc = "wait", !.waited = 0, !.start = now, !.wake = now]
    ELSE IF hp[proc.state].cleared THEN Done(proc, Failure("exception"))
    ELSE IF ~Truthy(hp[proc.state].code)
         THEN IF InStore(proc.state)
              THEN [proc EXCEPT !.pc = "wait", !.start = now, !.wake = now]
              ELSE Done(proc, Failure("no_callback"))
         ELSE [proc EXCEPT !.pc = "exchange", !.auth_code = hp[proc.state].code]

\* the entry of a completion call, while fewer than `calls` were made
StartCall(p, calls, variants, pids, sessions) ==
    /\ procs[p].pc = "idle"
    /\ \A q \in Procs : procs[q].pc = "idle" => ProcOrder[p] <= ProcOrder[q]
    /\ now \in instants
    /\ nCall < calls
    /\ LoopFree(p)
    /\ nCall' = nCall + 1
    /\ \E variant \in variants, project_id \in pids, user_session \in sessions :
        LET state == FindFlow(auth_flows, heap, project_id, user_session)
            proc == [IdleProc EXCEPT !.id = p, !.variant = variant, !.arg_pid = project_id,
                                     !.user_session = user_session,
                                     !.project_id = project_id, !.state = state]
        IN  procs' = [procs EXCEPT ![p] =
                IF state = NoState THEN Done(proc, Failure("no_flow"))
                ELSE IF heap[state].auto_project_detection /\ ~Truthy(project_id)
                     THEN [proc EXCEPT !.pc = "detect"]
                ELSE IF ~Truthy(project_id)
                     THEN IF ~Truthy(heap[state].project_id)
                          THEN Done(proc, ManualFailure("missing_project_id"))
                          ELSE EnterWait([proc EXCEPT !.project_id = heap[state].project_id], heap)
                ELSE EnterWait(proc, heap)]
    /\ last' = [op |-> "none"]
    /\ UNCHANGED <<stream, oauthlib, auth_flows, heap, servers, now, instants, files, nCreate,
                 auth_tokens, nToken, threads>>

Start(p, variants, pids, sessions) == StartCall(p, MaxCalls, variants, pids, sessions)

\* the await of auto_detect_project_id returns
Detect(p) ==
    /\ procs[p].pc = "detect"
    /\ LoopFree(p)
    /\ \E meta \in MetaAnswers, gcloud \in GcloudAnswers :
        LET detected_project_id == auto_detect_project_id(meta, gcloud)
            proc == [procs[p] EXCEPT !.detected = detected_project_id]
            state == proc.state
        IN  IF Truthy(detected_project_id)
            THEN /\ heap' = [heap EXCEPT ![state].project_id = detected_project_id]
                 /\ procs' = [procs EXCEPT ![p] =
                        EnterWait([proc EXCEPT !.project_id = detected_project_id], heap')]
            ELSE /\ heap' = heap
                 /\ procs' = [procs EXCEPT ![p] =
                        IF proc.variant = "sync"
                        THEN Done(proc, ManualFailure("cannot_detect"))
                        ELSE EnterWait(proc, heap)]
    /\ last' = [op |-> "none"]
    /\ UNCHANGED <<stream, oauthlib, auth_flows, servers, now, instants, files, nCreate, nCall,
                 auth_tokens, nToken, threads>>

----------------------------------------------------------------------------
(* The wait loops.  One step runs the loop from a wake-up on: it tests the  *)
(* loop condition and the record's code and, when the loop goes on, sleeps. *)
(* Other parties act only at the instants of `instants`.  A poll made at    *)
(* such an instant sleeps once: the others may still act at that instant.   *)
(* A poll made between two instants reads, after each sleep up to the next  *)
(* instant, the record it read before, so these iterations are one step.    *)

CeilDiv(a, b) == (a + b - 1) \div b

Iterations(interval, left) ==
    LET later == {t \in instants : t > now}
        upto == IF now \in instants THEN 1
                ELSE IF later = {} THEN left
                ELSE CeilDiv(Min(later) - now, interval)
    IN  IF upto < left THEN upto ELSE left

\* wait_for_callback_sync after its entry check, and lines 517-525 of
\* complete_auth_flow on its return
PollSync(proc) ==
    LET flow_data == heap[proc.state]
    IN  IF now - proc.start < Sec(SYNC_TIMEOUT)
        THEN IF Truthy(flow_data.code)
             THEN IF InStore(proc.state)
                  THEN /\ heap' = [heap EXCEPT ![proc.state].code = flow_data.code,
                                               ![proc.state].completed = TRUE]
                       /\ procs' = [procs EXCEPT ![proc.id] =
                              [proc EXCEPT !.pc = "exchange", !.auth_code = flow_data.code]]
                  ELSE /\ heap' = heap
                       /\ procs' = [procs EXCEPT ![proc.id] = Done(proc, Failure("exception"))]
             ELSE /\ heap' = heap
                  /\ procs' = [procs EXCEPT ![proc.id] =
                         [proc EXCEPT !.wake = now + SyncInterval *
                              Iterations(SyncInterval,
                                         CeilDiv(proc.start + Sec(SYNC_TIMEOUT) - now, SyncInterval))]]
        ELSE /\ heap' = heap
             /\ procs' = [procs EXCEPT ![proc.id] = Done(proc, Failure("no_callback"))]

\* variant: the timeout of the wait loop clears the flow record
PollAsyncClearsOnTimeout(proc) ==
    LET flow_data == heap[proc.state]
    IN  IF proc.waited < max_wait_time /\ ~Truthy(flow_data.code)
        THEN /\ heap' = heap
             /\ procs' = [procs EXCEPT ![proc.id] =
                    LET n == Iterations(AsyncInterval, (max_wait_time - proc.waited) \div wait_interval)
                    IN  [proc EXCEPT !.waited = proc.waited + n * wait_interval,
                                     !.wake = now + n * AsyncInterval]]
        ELSE IF ~Truthy(flow_data.code)
        THEN /\ heap' = [heap EXCEPT ![proc.state] = ClearedFlow]
             /\ procs' = [procs EXCEPT ![proc.id] = Done(proc, Failure("callback_timeout"))]
        ELSE /\ heap' = heap
             /\ procs' = [procs EXCEPT ![proc.id] =
                    [proc EXCEPT !.pc = "exchange", !.auth_code = flow_data.code]]

\* lines 749-772 of asyncio_complete_auth_flow
PollAsync(proc) ==
    LET flow_data == heap[proc.state]
    IN  /\ heap' = heap
        /\ procs' = [procs EXCEPT ![proc.id] =
              IF proc.waited < max_wait_time /\ ~Truthy(flow_data.code)
              THEN LET n == Iterations(AsyncInterval, (max_wait_time - proc.waited) \div wait_interval)
                   IN  [proc EXCEPT !.waited = proc.waited + n * wait_interval,
                                    !.wake = now + n * AsyncInterval]
              ELSE IF ~Truthy(flow_data.code)
                   THEN Done(proc, Failure("callback_timeout"))
                   ELSE [proc EXCEPT !.pc = "exchange", !.auth_code = flow_data.code]]

Poll(p) ==
    /\ procs[p].pc = "wait"
    /\ now >= procs[p].wake
    /\ IF procs[p].variant = "sync" THEN PollSync(procs[p]) ELSE LoopFree(p) /\ PollAsync(procs[p])
    /\ last' = [op |-> "none"]
    /\ UNCHANGED <<stream, oauthlib, auth_flows, servers, now, instants, files, nCreate, nCall,
                 auth_tokens, nToken, threads>>

----------------------------------------------------------------------------
(* save_credentials, then the teardown and the answer of a completion.      *)

FileName(project_id, t) == <<project_id, t \div Sec(1)>>

save_credentials(dir, auth_code, project_id) ==
    (FileName(project_id, now) :> [project_id |-> project_id, code |-> auth_code]) @@ dir

Finish(proc, project_id, save_ok) ==
    IF save_ok
    THEN /\ files' = save_credentials(files, proc.auth_code, project_id)
         /\ servers' = IF InStore(proc.state)
                       THEN async_shutdown_server(servers, {heap[proc.state].server})
                       ELSE servers
         /\ auth_flows' = Remove(auth_flows, {proc.state})
         /\ procs' = [procs EXCEPT ![proc.id] =
                Done([proc EXCEPT !.saves = proc.saves + 1, !.project_id = project_id],
                     [NoResult EXCEPT !.success = TRUE, !.project_id = project_id,
                                      !.file_path = FileName(project_id, now),
                                      !.auto_detected_project =
                                          heap[proc.state].auto_project_detection])]
    ELSE /\ procs' = [procs EXCEPT ![proc.id] =
                Done([proc EXCEPT !.project_id = project_id],
                     [NoResult EXCEPT !.error = "fetch_failed", !.cause = "persist"])]
         /\ UNCHANGED <<files, servers, auth_flows>>

\* flow.fetch_token(code=auth_code) and what follows it up to the next await
Exchange(p) ==
    /\ procs[p].pc = "exchange"
    /\ \E fetch_ok \in BOOLEAN, save_ok \in BOOLEAN :
        LET proc == procs[p]
            flow_data == heap[proc.state]
        IN  IF ~fetch_ok
            THEN /\ procs' = [procs EXCEPT ![p] =
                        Done(proc, [NoResult EXCEPT !.error = "fetch_failed", !.cause = "exchange"])]
                 /\ UNCHANGED <<auth_flows, heap, servers, files>>
            ELSE IF flow_data.auto_project_detection /\ ~Truthy(proc.project_id)
            THEN /\ procs' = [procs EXCEPT ![p].pc = "listing"]
                 /\ UNCHANGED <<auth_flows, heap, servers, files>>
            ELSE IF proc.variant = "async" /\ Truthy(proc.project_id)
            THEN /\ procs' = [procs EXCEPT ![p].pc = "enable"]
                 /\ UNCHANGED <<auth_flows, heap, servers, files>>
            ELSE IF ~Truthy(proc.project_id)
            THEN /\ procs' = [procs EXCEPT ![p] = Done(proc, ManualFailure("missing_project_id"))]
                 /\ UNCHANGED <<auth_flows, heap, servers, files>>
            ELSE /\ heap' = heap
                 /\ Finish(proc, proc.project_id, save_ok)
    /\ oauthlib' = IF procs'[p].pc = "done" THEN Restore(Patch(oauthlib, p), p)
                   ELSE Patch(oauthlib, p)
    /\ last' = [op |-> "none"]
    /\ UNCHANGED <<now, instants, nCreate, nCall, auth_tokens, nToken, threads, stream>>

\* the await of get_user_projects returns
Listing(p) ==
    /\ procs[p].pc = "listing"
    /\ LoopFree(p)
    /\ \E response \in ListResponses, save_ok \in BOOLEAN :
        LET user_projects == get_user_projects(response)
            proc == [procs[p] EXCEPT !.listed = TRUE, !.user_projects = user_projects]
            project_id == IF Len(user_projects) = 1 THEN user_projects[1].projectId
                          ELSE select_default_project(user_projects)
        IN  IF user_projects = <<>>
            THEN /\ procs' = [procs EXCEPT ![p] = Done(proc, ManualFailure("cannot_list"))]
                 /\ UNCHANGED <<auth_flows, heap, servers, files>>
            ELSE IF ~Truthy(project_id)
            THEN /\ procs' = [procs EXCEPT ![p] =
                        IF Len(user_projects) = 1
                        THEN Done(proc, ManualFailure("missing_project_id"))
                        ELSE Done(proc, [NoResult EXCEPT
                                           !.error = "select_project",
                                           !.requires_project_selection = TRUE,
                                           !.available_projects = available_projects(user_projects)])]
                 /\ UNCHANGED <<auth_flows, heap, servers, files>>
            ELSE /\ heap' = [heap EXCEPT ![proc.state].project_id = project_id]
                 /\ IF proc.variant = "async"
                    THEN /\ procs' = [procs EXCEPT ![p] =
                                [proc EXCEPT !.pc = "enable", !.project_id = project_id]]
                         /\ UNCHANGED <<auth_flows, servers, files>>
                    ELSE Finish(proc, project_id, save_ok)
    /\ oauthlib' = IF procs'[p].pc = "done" THEN Restore(oauthlib, p) ELSE oauthlib
    /\ last' = [op |-> "none"]
    /\ UNCHANGED <<now, instants, nCreate, nCall, auth_tokens, nToken, threads, stream>>

\* variant: the completion goes on without the call
enable_required_apisSkipped(enabled) == "uncalled"

\* enable_required_apis has run: it returns True, or False when it caught an
\* exception
enable_required_apis(enabled) == IF enabled THEN "enabled" ELSE "failed"

\* the await of enable_required_apis returns (its answer is not read)
Enable(p) ==
    /\ procs[p].pc = "enable"
    /\ LoopFree(p)
    /\ \E enabled \in BOOLEAN, save_ok \in BOOLEAN :
        Finish([procs[p] EXCEPT !.apis = enable_required_apis(enabled)],
               procs[p].project_id, save_ok)
    /\ heap' = heap
    /\ oauthlib' = Restore(oauthlib, p)
    /\ last' = [op |-> "none"]
    /\ UNCHANGED <<now, instants, nCreate, nCall, auth_tokens, nToken, threads, stream>>

\* variant: the cancellation is handled like a failure that ends the flow
cancel_waitTearsDown(proc) ==
    /\ servers' = IF InStore(proc.state)
                  THEN async_shutdown_server(servers, {heap[proc.state].server})
                  ELSE servers
    /\ auth_flows' = Remove(auth_flows, {proc.state})
    /\ heap' = heap

\* CancelledError raised by `await asyncio.sleep(wait_interval)`: it is not
\* an Exception, so neither except clause of the call runs
cancel_wait(proc) ==
    /\ servers' = servers
    /\ auth_flows' = auth_flows
    /\ heap' = heap

\* the task that runs asyncio_complete_auth_flow is cancelled while the call
\* sleeps in its wait loop
Cancel(p) ==
    /\ now \in instants
    /\ procs[p].pc = "wait"
    /\ procs[p].variant = "async"
    /\ cancel_wait(procs[p])
    /\ procs' = [procs EXCEPT ![p].pc = "cancelled"]
    /\ last' = [op |-> "none"]
    /\ UNCHANGED <<stream, oauthlib, now, instants, files, nCreate, nCall, auth_tokens, nToken, threads>>

\* the caller has the answer
Return(p) ==
    /\ procs[p].pc = "done"
    /\ procs' = [procs EXCEPT ![p] = [IdleProc EXCEPT !.id = p]]
    /\ last' = [op |-> "none"]
    /\ UNCHANGED <<stream, oauthlib, auth_flows, heap, servers, now, instants, files, nCreate, nCall,
                 auth_tokens, nToken, threads>>

----------------------------------------------------------------------------
(* Time passes up to the next instant at which something happens; a waiter  *)
(* that can run is not kept beyond its wake-up time.                       *)

Waiting(p) == procs[p].pc = "wait"

Runnable(p) == Waiting(p) /\ (procs[p].variant = "sync" \/ LoopFree(p))

Tick ==
    /\ \A p \in Procs : Runnable(p) => procs[p].wake > now
    /\ LET next == {t \in instants : t > now}
                   \cup {procs[p].wake : p \in {q \in Procs : Waiting(q) /\ procs[q].wake > now}}
       IN  /\ next # {}
           /\ now' = Min(next)
    /\ last' = [op |-> "none"]
    /\ UNCHANGED <<stream, oauthlib, auth_flows, heap, servers, instants, procs, files, nCreate, nCall,
                 auth_tokens, nToken, threads>>

----------------------------------------------------------------------------
(* Handlers that run in threads of their own, beside the event loop: the    *)
(* callback listener ("h"), a cleanup ("s"), two create_auth_url calls      *)
(* ("a", "b") and two save_uploaded_credential calls ("w1", "w2").  Each    *)
(* keeps its position and its local variables.                             *)

ThreadNames == {"h", "s", "a", "b", "w1", "w2"}

NoFile == <<None, 0>>

IdleThread ==
    [ pc |-> "idle", state |-> NoState, code |-> None, port |-> 0,
      project_id |-> None, base_name |-> None, timestamp |-> 0, counter |-> 0,
      file_path |-> NoFile, file_content |-> None, states_to_remove |-> <<>>,
      raised |-> FALSE, uuid |-> 0 ]

IdleThreads == [t \in ThreadNames |-> IdleThread]

----------------------------------------------------------------------------
(* fake_stream_response (openai_router.py): stream_generator is an async    *)
(* generator that StreamingResponse consumes.  It is suspended at a yield   *)
(* while the consumer sends the item, and at `await asyncio.sleep(3.0)`     *)
(* otherwise; `await response_task` comes only after the loop saw the task  *)
(* done and does not suspend.  The request task runs while the generator    *)
(* is suspended.  A cancellation of the consumer reaches the generator as   *)
(* CancelledError when it is inside the sleep, and as GeneratorExit (the    *)
(* generator is closed, never resumed) when it is at a yield.  items is     *)
(* what the generator has yielded; cancelled is a history field.            *)

\* what the upstream answer is to the generator
ResponseKinds == {"content", "thinking", "empty", "nonjson", "nonobject"}

IdleStream ==
    [ pc |-> "idle", items |-> <<>>, task |-> "none", response |-> None, cancelled |-> FALSE ]

\* response_task.done()
TaskDone(task) == task \in {"returned", "raised", "cancelled"}

\* variant: nothing is sent for a response without content
final_chunksNoneWhenEmpty(response) ==
    IF response \in {"content", "thinking"} THEN <<"content">>
    ELSE IF response = "empty" THEN <<>>
    ELSE <<"error">>

\* the chunk yielded for the decoded response: the content chunk (for a
\* response with reasoning only, with the placeholder text), the default
\* reply for no content, the body for a JSONDecodeError, and the chunk of
\* the outer except clause for any other exception of the processing
final_chunks(response) ==
    IF response \in {"content", "thinking"} THEN <<"content">> ELSE <<"error">>

\* from `response = await response_task` with the task done, up to the next
\* yield: a task that raised goes through the inner and the outer except
\* clause to the error chunk
AfterLoop(s) ==
    [s EXCEPT !.pc = "yield_final",
              !.items = s.items \o (IF s.task = "raised" THEN <<"error">>
                                    ELSE final_chunks(s.response))]

\* the first __anext__ of the consumer: up to the first yield
StreamBegin ==
    /\ stream.pc = "idle"
    /\ stream' = [stream EXCEPT !.pc = "yield_first", !.items = <<"heartbeat">>]
    /\ last' = [op |-> "none"]
    /\ UNCHANGED <<auth_flows, heap, servers, now, instants, procs, files, nCreate, nCall,
                   auth_tokens, nToken, threads, oauthlib>>

\* a later __anext__: the generator goes on from its yield to the next
\* suspension or to its end
StreamNext ==
    /\ stream' =
          CASE stream.pc = "yield_first" -> [stream EXCEPT !.task = "running", !.pc = "sleep"]
            [] stream.pc = "yield_hb" -> IF TaskDone(stream.task) THEN AfterLoop(stream)
                                         ELSE [stream EXCEPT !.pc = "sleep"]
            [] stream.pc = "yield_final" -> [stream EXCEPT !.pc = "yield_done",
                                                           !.items = Append(stream.items, "done")]
            [] stream.pc = "yield_done" -> [stream EXCEPT !.pc = "ended"]
            [] OTHER -> stream
    /\ stream' # stream
    /\ last' = [op |-> "none"]
    /\ UNCHANGED <<auth_flows, heap, servers, now, instants, procs, files, nCreate, nCall,
                   auth_tokens, nToken, threads, oauthlib>>

\* asyncio.sleep(3.0) returns; at most MaxBeats heartbeats follow the first
StreamWake ==
    /\ stream.pc = "sleep"
    /\ IF TaskDone(stream.task)
       THEN stream' = AfterLoop(stream)
       ELSE /\ Len(stream.items) <= MaxBeats
            /\ stream' = [stream EXCEPT !.pc = "yield_hb",
                                         !.items = Append(stream.items, "heartbeat")]
    /\ last' = [op |-> "none"]
    /\ UNCHANGED <<auth_flows, heap, servers, now, instants, procs, files, nCreate, nCall,
                   auth_tokens, nToken, threads, oauthlib>>

\* send_gemini_request returns or raises in the request task
TaskFinish ==
    /\ stream.task = "running"
    /\ stream.pc \in {"sleep", "yield_hb"}
    /\ \/ \E response \in ResponseKinds :
             stream' = [stream EXCEPT !.task = "returned", !.response = response]
       \/ stream' = [stream EXCEPT !.task = "raised"]
    /\ last' = [op |-> "none"]
    /\ UNCHANGED <<auth_flows, heap, servers, now, instants, procs, files, nCreate, nCall,
                   auth_tokens, nToken, threads, oauthlib>>

\* CancelledError at `await asyncio.sleep(3.0)`: response_task.cancel(),
\* `await response_task`, raise.  The await of a task that has raised gives
\* that exception, which the outer `except Exception` takes.
StreamCancel ==
    /\ stream.pc = "sleep"
    /\ stream' =
          IF stream.task = "raised"
          THEN [AfterLoop(stream) EXCEPT !.cancelled = TRUE]
          ELSE [stream EXCEPT !.pc = "cancelled", !.cancelled = TRUE,
                              !.task = IF stream.task = "running" THEN "cancelled"
                                       ELSE stream.task]
    /\ last' = [op |-> "none"]
    /\ UNCHANGED <<auth_flows, heap, servers, now, instants, procs, files, nCreate, nCall,
                   auth_tokens, nToken, threads, oauthlib>>

\* the consumer is cancelled or fails while it sends an item: the generator
\* is closed at its yield (GeneratorExit, which no except clause here takes)
StreamClose ==
    /\ stream.pc \in {"yield_first", "yield_hb", "yield_final", "yield_done"}
    /\ stream' = [stream EXCEPT !.pc = "closed", !.cancelled = TRUE]
    /\ last' = [op |-> "none"]
    /\ UNCHANGED <<auth_flows, heap, servers, now, instants, procs, files, nCreate, nCall,
                   auth_tokens, nToken, threads, oauthlib>>

NextStream ==
    \/ StreamBegin
    \/ StreamNext
    \/ StreamWake
    \/ TaskFinish
    \/ StreamCancel
    \/ StreamClose

----------------------------------------------------------------------------
(* The flow lifecycle: callers, callbacks and the memory manager act at     *)
(* the instants 0 s, 0.5 s, 600 s and 600.5 s.                              *)

LifecycleInstants == {0, 1, Sec(EXPIRY_TIME), Sec(EXPIRY_TIME) + 1}

Init ==
    /\ auth_flows = <<>>
    /\ heap = <<>>
    /\ servers = <<>>
    /\ now = 0
    /\ instants = LifecycleInstants
    /\ procs = [p \in Procs |-> [IdleProc EXCEPT !.id = p]]
    /\ files = <<>>
    /\ nCreate = 0
    /\ nCall = 0
    /\ last = [op |-> "none"]
    /\ auth_tokens = <<>>
    /\ nToken = 0
    /\ threads = IdleThreads
    /\ oauthlib = Unpatched
    /\ stream = IdleStream

Step(p) ==
    \/ Start(p, Variants, CallPids, {None})
    \/ Detect(p)
    \/ Poll(p)
    \/ Exchange(p)
    \/ Listing(p)
    \/ Enable(p)
    \/ Return(p)

\* one caller, flows without a user session, one authorization code
Next ==
    \/ CreateAuthUrl(CreatePids, {None}, {"none"})
    \/ Callback({"X"}, FALSE)
    \/ ServerClose
    \/ MemoryCleanup
    \/ Tick
    \/ Step("c1")

Spec == Init /\ [][Next]_vars

----------------------------------------------------------------------------
(* The store and its listeners alone: every input of create_auth_url and    *)
(* of the callback handler, no completion call.                            *)

NextStore ==
    \/ CreateAuthUrl(CreatePids, Sessions, CreateFailures)
    \/ Callback({None} \cup Codes, TRUE)
    \/ ServerClose
    \/ MemoryCleanup
    \/ Tick

SpecStore == Init /\ [][NextStore]_vars

----------------------------------------------------------------------------
(* The waiters at their deadlines: callers and callbacks act at 0 s, at     *)
(* the last poll of the blocking waiter (299.5 s) and at its bound (300 s). *)

WaitInstants == {0, Sec(SYNC_TIMEOUT) - SyncInterval, Sec(SYNC_TIMEOUT)}

InitWait ==
    /\ auth_flows = <<>>
    /\ heap = <<>>
    /\ servers = <<>>
    /\ now = 0
    /\ instants = WaitInstants
    /\ procs = [p \in Procs |-> [IdleProc EXCEPT !.id = p]]
    /\ files = <<>>
    /\ nCreate = 0
    /\ nCall = 0
    /\ last = [op |-> "none"]
    /\ auth_tokens = <<>>
    /\ nToken = 0
    /\ threads = IdleThreads
    /\ oauthlib = Unpatched
    /\ stream = IdleStream

SpecWait == InitWait /\ [][Next]_vars

----------------------------------------------------------------------------
(* The panel tokens.  secrets.token_urlsafe(32) gives a token never seen    *)
(* before: the n-th token issued is the number n.  NoToken is the empty     *)
(* token, Unissued a token that no call ever returns.                      *)

flowVars == <<auth_flows, heap, servers, procs, files, nCreate, nCall>>

NoToken == 0

Unissued == MaxTokens + 1

Without(f, gone) == [t \in DOMAIN f \ gone |-> f[t]]

\* variant: tokens do not age
TokenExpiredNever(created_at, current_time) == FALSE

TokenExpired(created_at, current_time) ==
    current_time - created_at > Sec(TOKEN_EXPIRY)

\* variant: the sweep empties the table
cleanup_expired_tokensAll(tokens, current_time) == <<>>

cleanup_expired_tokens(tokens, current_time) ==
    Without(tokens, {t \in DOMAIN tokens : TokenExpired(tokens[t], current_time)})

GenerateToken ==
    /\ now \in instants
    /\ nToken < MaxTokens
    /\ nToken' = nToken + 1
    /\ auth_tokens' = ((nToken + 1) :> now) @@ cleanup_expired_tokens(auth_tokens, now)
    /\ last' = [op |-> "token", token |-> nToken + 1]
    /\ UNCHANGED <<stream, oauthlib, flowVars, now, instants, threads>>

verify_auth_token(token) ==
    IF token = NoToken \/ token \notin DOMAIN auth_tokens
    THEN /\ auth_tokens' = auth_tokens
         /\ last' = [op |-> "verify", token |-> token, result |-> FALSE]
    ELSE IF TokenExpired(auth_tokens[token], now)
         THEN /\ auth_tokens' = Without(auth_tokens, {token})
              /\ last' = [op |-> "verify", token |-> token, result |-> FALSE]
         ELSE /\ auth_tokens' = auth_tokens
              /\ last' = [op |-> "verify", token |-> token, result |-> TRUE]

VerifyToken ==
    /\ now \in instants
    /\ \E token \in {NoToken, Unissued} \cup 1..nToken : verify_auth_token(token)
    /\ UNCHANGED <<stream, oauthlib, flowVars, now, instants, nToken, threads>>

InvalidateToken ==
    /\ now \in instants
    /\ \E token \in {Unissued} \cup 1..nToken :
        /\ auth_tokens' = Without(auth_tokens, {token})
        /\ last' = [op |-> "invalidate", token |-> token]
    /\ UNCHANGED <<stream, oauthlib, flowVars, now, instants, nToken, threads>>

TokenInstants == {0, 1, Sec(TOKEN_EXPIRY), Sec(TOKEN_EXPIRY) + 1}

InitTokens ==
    /\ auth_flows = <<>>
    /\ heap = <<>>
    /\ servers = <<>>
    /\ now = 0
    /\ instants = TokenInstants
    /\ procs = [p \in Procs |-> [IdleProc EXCEPT !.id = p]]
    /\ files = <<>>
    /\ nCreate = 0
    /\ nCall = 0
    /\ last = [op |-> "none"]
    /\ auth_tokens = <<>>
    /\ nToken = 0
    /\ threads = IdleThreads
    /\ oauthlib = Unpatched
    /\ stream = IdleStream

NextTokens ==
    \/ GenerateToken
    \/ VerifyToken
    \/ InvalidateToken
    \/ Tick

SpecTokens == InitTokens /\ [][NextTokens]_vars

\* C12: a verification of a token issued at this instant answers true; a
\* verification answers true only for a token of the table whose age is
\* at most TOKEN_EXPIRY seconds, so it answers false beyond that age and
\* after an invalidation; a token a verification refused or an
\* invalidation removed is out of the table, no token comes back into the
\* table, no token's issue time changes and time does not go back.
TokenLifecycle ==
    [][/\ \A t \in 1..nToken :
             /\ t \notin DOMAIN auth_tokens => t \notin DOMAIN auth_tokens'
             /\ (t \in DOMAIN auth_tokens /\ t \in DOMAIN auth_tokens') =>
                    auth_tokens'[t] = auth_tokens[t]
       /\ now' >= now
       /\ last'.op = "token" => auth_tokens'[last'.token] = now
       /\ last'.op = "invalidate" => last'.token \notin DOMAIN auth_tokens'
       /\ last'.op = "verify" =>
             LET t == last'.token
             IN  IF last'.result
                 THEN /\ t \in DOMAIN auth_tokens /\ t \in DOMAIN auth_tokens'
                      /\ now - auth_tokens[t] <= Sec(TOKEN_EXPIRY)
                 ELSE /\ t \notin DOMAIN auth_tokens'
                      /\ t \in DOMAIN auth_tokens =>
                            now - auth_tokens[t] > Sec(TOKEN_EXPIRY)]_vars

\* C12 case: a token that was issued and invalidated within the first
\* second has just verified false
RefusedAfterInvalidation ==
    /\ last.op = "verify" /\ ~last.result
    /\ last.token \in 1..nToken
    /\ now <= 1

----------------------------------------------------------------------------
(* save_uploaded_credential(file_content, original_filename).  The file     *)
(* f"{base_name}-{timestamp}.json" is the pair <<base_name, timestamp>>,    *)
(* f"{base_name}-{timestamp}-{counter}.json" the triple; a file's content   *)
(* is the record of the project id and the credential it carries.  An       *)
(* upload that fails validation carries the content "bad".                  *)

BaseNames == {"p1", "up"}

Contents == {"k1", "k2", "bad"}

validate_credential_file(file_content) == file_content # "bad"

Timestamp(t) == t \div Sec(1)

SuffixedName(base_name, timestamp, counter) == <<base_name, timestamp, counter>>

\* variant: the name is not probed
UniquePathUnprobed(dir, base_name, timestamp, file_path, counter) == file_path

\* the loop `while os.path.exists(file_path)`
RECURSIVE UniquePath(_, _, _, _, _)
UniquePath(dir, base_name, timestamp, file_path, counter) ==
    IF file_path \in DOMAIN dir
    THEN UniquePath(dir, base_name, timestamp,
                    SuffixedName(base_name, timestamp, counter), counter + 1)
    ELSE file_path

UploadedFile(file_content) == [project_id |-> "unknown", code |-> file_content]

save_uploaded_credential(file_content, original_filename) ==
    IF ~validate_credential_file(file_content)
    THEN /\ files' = files
         /\ last' = [op |-> "upload", success |-> FALSE, base_name |-> original_filename,
                     file_path |-> NoFile]
    ELSE LET timestamp == Timestamp(now)
             file_path == UniquePath(files, original_filename, timestamp,
                                     FileName(original_filename, now), 1)
         IN  /\ files' = (file_path :> UploadedFile(file_content)) @@ files
             /\ last' = [op |-> "upload", success |-> TRUE, base_name |-> original_filename,
                         file_path |-> file_path]

SaveUploaded ==
    /\ now \in instants
    /\ Cardinality(DOMAIN files) < MaxFiles
    /\ \E file_content \in Contents, original_filename \in BaseNames :
           save_uploaded_credential(file_content, original_filename)
    /\ UNCHANGED <<stream, oauthlib, auth_flows, heap, servers, procs, nCreate, nCall, now, instants,
                   auth_tokens, nToken, threads>>

\* uploads at 0 s and 0.5 s (the same second) and at 1 s
UploadInstants == {0, 1, Sec(1)}

InitUpload ==
    /\ auth_flows = <<>>
    /\ heap = <<>>
    /\ servers = <<>>
    /\ now = 0
    /\ instants = UploadInstants
    /\ procs = [p \in Procs |-> [IdleProc EXCEPT !.id = p]]
    /\ files = <<>>
    /\ nCreate = 0
    /\ nCall = 0
    /\ last = [op |-> "none"]
    /\ auth_tokens = <<>>
    /\ nToken = 0
    /\ threads = IdleThreads
    /\ oauthlib = Unpatched
    /\ stream = IdleStream

NextUpload ==
    \/ SaveUploaded
    \/ Tick

SpecUpload == InitUpload /\ [][NextUpload]_vars

\* C13: a successful upload writes a file that did not exist and leaves
\* every existing file as it was; when the file of its base name and second
\* exists, the new file carries the least numeric suffix from 1 on that is
\* not taken, otherwise it carries none.
UploadNeverOverwrites ==
    [][(last'.op = "upload" /\ last'.success /\ files' # files) =>
          LET f == last'.file_path
              plain == <<last'.base_name, Timestamp(now)>>
          IN  /\ f \notin DOMAIN files
              /\ DOMAIN files' = DOMAIN files \cup {f}
              /\ \A g \in DOMAIN files : files'[g] = files[g]
              /\ IF plain \in DOMAIN files
                 THEN /\ Len(f) = 3 /\ f[1] = plain[1] /\ f[2] = plain[2] /\ f[3] >= 1
                      /\ \A c \in 1..(f[3] - 1) :
                            SuffixedName(plain[1], plain[2], c) \in DOMAIN files
                 ELSE f = plain]_vars

\* C13 case: the second upload of a base name within one second has been
\* written under the suffix 1, beside the first one with its other content
SecondUploadSuffixed ==
    /\ last.op = "upload" /\ last.success
    /\ Len(last.file_path) = 3 /\ last.file_path[3] = 1
    /\ <<last.base_name, Timestamp(now)>> \in DOMAIN files
    /\ files[<<last.base_name, Timestamp(now)>>] # files[last.file_path]

----------------------------------------------------------------------------
(* Two uploads in threads of their own (w1, w2): save_uploaded_credential   *)
(* one statement at a time.  Nothing but the file system stands between     *)
(* the test os.path.exists(file_path) and open(file_path, "w").             *)

Uploaders == {"w1", "w2"}

\* validation and the first file name
UploadBegin(t) ==
    /\ now \in instants
    /\ threads[t].pc = "idle"
    /\ \E file_content \in Contents, original_filename \in BaseNames :
        IF ~validate_credential_file(file_content)
        THEN /\ threads' = threads
             /\ last' = [op |-> "upload", success |-> FALSE, base_name |-> original_filename,
                         file_path |-> NoFile]
        ELSE /\ threads' = [threads EXCEPT ![t] =
                     [IdleThread EXCEPT !.pc = "probe",
                                        !.base_name = original_filename,
                                        !.timestamp = Timestamp(now),
                                        !.file_path = FileName(original_filename, now),
                                        !.counter = 1,
                                        !.file_content = file_content]]
             /\ last' = [op |-> "none"]
    /\ UNCHANGED <<stream, oauthlib, auth_flows, heap, servers, now, instants, procs, files, nCreate, nCall,
                   auth_tokens, nToken>>

\* one test of `while os.path.exists(file_path)` and the body it guards
UploadProbe(t) ==
    /\ threads[t].pc = "probe"
    /\ LET w == threads[t]
       IN  threads' = [threads EXCEPT ![t] =
               IF w.file_path \in DOMAIN files
               THEN [w EXCEPT !.file_path = SuffixedName(w.base_name, w.timestamp, w.counter),
                              !.counter = w.counter + 1]
               ELSE [w EXCEPT !.pc = "open"]]
    /\ last' = [op |-> "none"]
    /\ UNCHANGED <<stream, oauthlib, auth_flows, heap, servers, now, instants, procs, files, nCreate, nCall,
                   auth_tokens, nToken>>

\* open(file_path, "w"), json.dump and the answer
UploadOpen(t) ==
    /\ threads[t].pc = "open"
    /\ LET w == threads[t]
       IN  /\ files' = (w.file_path :> UploadedFile(w.file_content)) @@ files
           /\ threads' = [threads EXCEPT ![t].pc = "done"]
           /\ last' = [op |-> "upload", success |-> TRUE, base_name |-> w.base_name,
                       file_path |-> w.file_path]
    /\ UNCHANGED <<stream, oauthlib, auth_flows, heap, servers, now, instants, procs, nCreate, nCall,
                   auth_tokens, nToken>>

NextUploadRace ==
    \/ \E t \in Uploaders : UploadBegin(t)
    \/ \E t \in Uploaders : UploadProbe(t)
    \/ \E t \in Uploaders : UploadOpen(t)
    \/ Tick

SpecUploadRace == InitUpload /\ [][NextUploadRace]_vars

\* C14: two uploads that ran at the same time have written two different
\* files, and each file holds what its upload wrote.
ConcurrentUploadsDistinctFiles ==
    (threads["w1"].pc = "done" /\ threads["w2"].pc = "done") =>
        /\ threads["w1"].file_path # threads["w2"].file_path
        /\ \A t \in Uploaders : files[threads[t].file_path] = UploadedFile(threads[t].file_content)

----------------------------------------------------------------------------
(* Two create_auth_url calls in threads of their own (a, b), each split     *)
(* between find_available_port, whose probe socket is closed when it        *)
(* returns, and create_callback_server, whose HTTPServer binds and listens  *)
(* in its constructor.  A port on which a socket listens cannot be bound    *)
(* again: the probe skips it and the constructor raises OSError.            *)

Creators == {"a", "b"}

\* variant: the constructor binds a port whatever listens on it
create_callback_serverUnchecked(srv, port) == TRUE

\* TRUE when HTTPServer(("0.0.0.0", port), ...) binds, FALSE when it raises
create_callback_server(srv, port) == port \notin Bound(srv)

\* find_available_port(), and str(uuid.uuid4()) drawn ahead of its use
CreateProbe(t) ==
    /\ now \in instants
    /\ threads[t].pc = "idle"
    /\ nCreate < MaxCreates
    /\ nCreate' = nCreate + 1
    /\ \E project_id \in CreatePids :
        IF find_available_port(servers) = {}
        THEN /\ threads' = threads
             /\ last' = [op |-> "create", success |-> FALSE, state |-> NoState, port |-> 0]
        ELSE \E callback_port \in find_available_port(servers) :
             /\ threads' = [threads EXCEPT ![t] =
                     [IdleThread EXCEPT !.pc = "bind", !.port = callback_port,
                                        !.project_id = project_id, !.uuid = nCreate + 1]]
             /\ last' = [op |-> "none"]
    /\ UNCHANGED <<stream, oauthlib, auth_flows, heap, servers, now, instants, procs, files, nCall,
                   auth_tokens, nToken>>

\* create_callback_server(callback_port) and the rest of create_auth_url
CreateBind(t) ==
    /\ threads[t].pc = "bind"
    /\ LET c == threads[t]
       IN  \E fail \in {"none", "flow"} :
           IF ~create_callback_server(servers, c.port)
           THEN /\ last' = [op |-> "create", success |-> FALSE, state |-> NoState, port |-> c.port]
                /\ UNCHANGED <<auth_flows, heap, servers>>
           ELSE LET started == (c.port :> "serving") @@ servers
                IN  IF fail = "flow"
                    THEN /\ servers' = started
                         /\ last' = [op |-> "create", success |-> FALSE, state |-> NoState,
                                     port |-> c.port]
                         /\ UNCHANGED <<auth_flows, heap>>
                    ELSE LET state == MakeState(None, c.uuid)
                             flow_data == NewFlow(c.project_id, None, c.port, now)
                             stored == IF InStore(state) THEN auth_flows
                                       ELSE Append(auth_flows, state)
                             swept == cleanup_expired_flows(stored, (state :> flow_data) @@ heap,
                                                            started, now)
                         IN  /\ auth_flows' = swept.keys
                             /\ heap' = swept.heap
                             /\ servers' = swept.servers
                             /\ last' = [op |-> "create", success |-> TRUE, state |-> state,
                                         port |-> c.port]
    /\ threads' = [threads EXCEPT ![t] = IdleThread]
    /\ UNCHANGED <<stream, oauthlib, now, instants, procs, files, nCreate, nCall, auth_tokens, nToken>>

NextCreateRace ==
    \/ \E t \in Creators : CreateProbe(t)
    \/ \E t \in Creators : CreateBind(t)
    \/ ServerClose
    \/ MemoryCleanup
    \/ Tick

SpecCreateRace == Init /\ [][NextCreateRace]_vars

PortsDistinct(keys, hp) ==
    \A i, j \in DOMAIN keys :
        i # j => hp[keys[i]].callback_port # hp[keys[j]].callback_port

\* C20: the port find_available_port returns is bound by no listener at
\* that moment, and after every step no two flows in the store have the
\* same callback_port, also when a second create_auth_url runs between the
\* probe and the bind of the first.
PortsExclusivelyOwned ==
    [][/\ \A t \in Creators :
            (threads[t].pc = "idle" /\ threads'[t].pc = "bind") =>
                threads'[t].port \notin Bound(servers)
       /\ PortsDistinct(auth_flows', heap')]_vars

\* C20 case: two calls probed the same port; the first bound it and owns
\* it through its flow, the second has just been refused
SecondBindRefused ==
    /\ last.op = "create" /\ ~last.success
    /\ last.port \in Bound(servers)
    /\ \E s \in Range(auth_flows) : heap[s].callback_port = last.port

----------------------------------------------------------------------------
(* Repeated and overlapping completion calls: up to MaxOverlap calls of     *)
(* asyncio_complete_auth_flow("p1"), made at 0 s or 0.5 s on flows made     *)
(* for p1.  A second call may start while the first one is suspended at an  *)
(* await, or after it has returned.                                         *)

CallInstants == {0, 1}

InitCalls ==
    /\ auth_flows = <<>>
    /\ heap = <<>>
    /\ servers = <<>>
    /\ now = 0
    /\ instants = CallInstants
    /\ procs = [p \in Procs |-> [IdleProc EXCEPT !.id = p]]
    /\ files = <<>>
    /\ nCreate = 0
    /\ nCall = 0
    /\ last = [op |-> "none"]
    /\ auth_tokens = <<>>
    /\ nToken = 0
    /\ threads = IdleThreads
    /\ oauthlib = Unpatched
    /\ stream = IdleStream

StepCalls(p) ==
    \/ StartCall(p, MaxOverlap, {"async"}, {"p1"}, {None})
    \/ Poll(p)
    \/ Exchange(p)
    \/ Enable(p)
    \/ Cancel(p)
    \/ Return(p)

NextCalls ==
    \/ CreateAuthUrl({"p1"}, {None}, {"none"})
    \/ Callback({"X"}, FALSE)
    \/ Tick
    \/ \E p \in Procs : StepCalls(p)

SpecCalls == InitCalls /\ [][NextCalls]_vars

----------------------------------------------------------------------------
(* select_default_project on its own: every list of one to MaxCandidates    *)
(* active projects out of five.                                             *)

Candidates == {P1, P2, PDef, PNoId, PNamed}

CandidateLists == UNION {[1..n -> Candidates] : n \in 1..MaxCandidates}

SelectDefaultProject ==
    /\ \E projects \in CandidateLists :
           last' = [op |-> "select", projects |-> projects,
                    project_id |-> select_default_project(projects)]
    /\ UNCHANGED <<auth_flows, heap, servers, now, instants, procs, files, nCreate, nCall,
                   auth_tokens, nToken, threads, oauthlib, stream>>

NextSelect ==
    \/ SelectDefaultProject

SpecSelect == Init /\ [][NextSelect]_vars

----------------------------------------------------------------------------
(* The two waiters side by side, as functions of the bound in seconds, of   *)
(* the tick at which the listener stores the code (Never: no callback), of  *)
(* whether a callback at the tick of a poll comes before that poll, and of  *)
(* whether the flow is in the store.  The listener stores nothing for a     *)
(* flow that is not in the store.  The sleeps take exactly their time.      *)

HasCode(t, arrival, first, in_store) ==
    /\ in_store
    /\ arrival # Never
    /\ arrival < t \/ (arrival = t /\ first)

\* the loop of wait_for_callback_sync, at its poll of tick t
RECURSIVE SyncLoop(_, _, _, _, _)
SyncLoop(t, timeout, arrival, first, in_store) ==
    IF t < Sec(timeout)
    THEN IF HasCode(t, arrival, first, in_store) THEN "code"
         ELSE SyncLoop(t + SyncInterval, timeout, arrival, first, in_store)
    ELSE "timeout"

\* lines 513-521 of complete_auth_flow with wait_for_callback_sync(state, timeout)
wait_for_callback_sync(timeout, arrival, first, in_store) ==
    IF ~in_store THEN "timeout"
    ELSE SyncLoop(0, timeout, arrival, first, in_store)

\* the loop of asyncio_complete_auth_flow and the test that follows it
RECURSIVE AsyncLoop(_, _, _, _, _)
AsyncLoop(waited, max_wait, arrival, first, in_store) ==
    IF waited < max_wait /\ ~HasCode(Sec(waited), arrival, first, in_store)
    THEN AsyncLoop(waited + wait_interval, max_wait, arrival, first, in_store)
    ELSE IF HasCode(Sec(waited), arrival, first, in_store) THEN "code" ELSE "timeout"

Bounds == 1..MaxBound

Arrivals == {Never} \cup 0..(Sec(MaxBound) + 1)

CompareWaiters ==
    /\ \E bound \in Bounds, arrival \in Arrivals, first \in BOOLEAN, in_store \in BOOLEAN :
           last' = [op |-> "waiters", bound |-> bound, arrival |-> arrival, first |-> first,
                    in_store |-> in_store,
                    blocking |-> wait_for_callback_sync(bound, arrival, first, in_store),
                    cooperative |-> AsyncLoop(0, bound, arrival, first, in_store)]
    /\ UNCHANGED <<auth_flows, heap, servers, now, instants, procs, files, nCreate, nCall,
                   auth_tokens, nToken, threads, oauthlib, stream>>

NextWaiters ==
    \/ CompareWaiters

SpecWaiters == Init /\ [][NextWaiters]_vars

----------------------------------------------------------------------------
(* A blocking and a cooperative completion on one event loop: up to         *)
(* MaxOverlap calls of either kind on flows of project p1.                  *)

StepLoop(p) ==
    \/ StartCall(p, MaxOverlap, Variants, {"p1"}, {None})
    \/ Poll(p)
    \/ Exchange(p)
    \/ Enable(p)
    \/ Return(p)

NextLoop ==
    \/ CreateAuthUrl({"p1"}, {None}, {"none"})
    \/ Callback({"X"}, FALSE)
    \/ Tick
    \/ \E p \in Procs : StepLoop(p)

SpecLoop == InitCalls /\ [][NextLoop]_vars

----------------------------------------------------------------------------
(* The lookup of a completion among flows of several user sessions: flows   *)
(* and calls with and without a project id, with and without a session.     *)

StepLookup(p) ==
    \/ Start(p, Variants, CallPids, Sessions)
    \/ Detect(p)
    \/ Poll(p)
    \/ Exchange(p)
    \/ Listing(p)
    \/ Enable(p)
    \/ Return(p)

NextLookup ==
    \/ CreateAuthUrl(CreatePids, Sessions, {"none"})
    \/ Callback({"X"}, FALSE)
    \/ Tick
    \/ StepLookup("c1")

SpecLookup == InitCalls /\ [][NextLookup]_vars

----------------------------------------------------------------------------
(* find_available_port on its own: the first k ports of the range are bound *)
(* by other listeners, possibly but for one of them, and so are some of the *)
(* ports the OS can assign.                                                 *)

TakenPorts ==
    LET prefixes == {DEFAULT_CALLBACK_PORT .. (DEFAULT_CALLBACK_PORT + k - 1) : k \in 0..PORT_SCAN}
        holes == {ScanPorts \ {h} : h \in {DEFAULT_CALLBACK_PORT, DEFAULT_CALLBACK_PORT + 1,
                                            DEFAULT_CALLBACK_PORT + PORT_SCAN - 1}}
    IN  {inRange \cup os : inRange \in prefixes \cup holes, os \in SUBSET OsPorts}

FindAvailablePort ==
    /\ \E taken \in TakenPorts :
           last' = [op |-> "find_port", taken |-> taken,
                    ports |-> find_available_port([port \in taken |-> "serving"])]
    /\ UNCHANGED <<auth_flows, heap, servers, now, instants, procs, files, nCreate, nCall,
                   auth_tokens, nToken, threads, oauthlib, stream>>

NextPorts ==
    \/ FindAvailablePort

SpecPorts == Init /\ [][NextPorts]_vars

----------------------------------------------------------------------------
(* One fake-streaming response, from the first heartbeat to the end of the  *)
(* generator.                                                               *)

SpecStream == Init /\ [][NextStream]_vars

----------------------------------------------------------------------------
(* chat_completions (openai_router.py), non-streaming request for an image  *)
(* model with the no-image retry on: the loop as a function of max_attempts *)
(* and of what the upstream answers to each request.  An answer is "image"  *)
(* (first candidate with an inlineData or fileData part), "text" (a first   *)
(* candidate without), "invalid" (a JSON object without candidates),        *)
(* "empty" (JSON that is falsy in Python: {}, [], null, 0, "") or           *)
(* "garbage" (json.loads raises).  events lists the requests sent and the   *)
(* sleeps in their order; response_data is the decoded answer of an attempt *)
(* (NoData: None).                                                          *)

AnswerKinds == {"image", "text", "invalid", "empty", "garbage"}

NoData == [attempt |-> 0, kind |-> "none"]

\* variant: no answer counts as an image
has_imageNever(kind) == FALSE

has_image(kind) == kind = "image"

RECURSIVE RetryLoop(_, _, _, _, _)
RetryLoop(attempts, max_attempts, responses, response_data, events) ==
    IF attempts < max_attempts
    THEN LET n == attempts + 1
             sent == Append(events, "send")
             decoded == IF responses[n] = "garbage" THEN response_data
                        ELSE [attempt |-> n, kind |-> responses[n]]
         IN  IF has_image(responses[n])
             THEN [events |-> sent, response_data |-> decoded]
             ELSE RetryLoop(n, max_attempts, responses, decoded,
                            IF n < max_attempts THEN Append(sent, "sleep") ELSE sent)
    ELSE [events |-> events, response_data |-> response_data]

\* `if not response_data: raise HTTPException(500)`, else the converted answer
FinalResponse(response_data) ==
    IF response_data.kind \in {"none", "empty"}
    THEN [status |-> 500, attempt |-> 0]
    ELSE [status |-> 200, attempt |-> response_data.attempt]

ChatCompletions ==
    /\ \E max_attempts \in 0..MaxAttempts, responses \in [1..MaxAttempts -> AnswerKinds] :
           LET loop == RetryLoop(0, max_attempts, responses, NoData, <<>>)
           IN  last' = [op |-> "retry", max_attempts |-> max_attempts, responses |-> responses,
                        events |-> loop.events, answer |-> FinalResponse(loop.response_data)]
    /\ UNCHANGED <<auth_flows, heap, servers, now, instants, procs, files, nCreate, nCall,
                   auth_tokens, nToken, threads, oauthlib, stream>>

NextRetry ==
    \/ ChatCompletions

SpecRetry == Init /\ [][NextRetry]_vars

----------------------------------------------------------------------------
(* Completions within one second.  The credentials directory is empty or    *)
(* holds the file that an earlier completion for project p1, with the       *)
(* authorization code Y, wrote at 0 s; callers and callbacks act at 0 s     *)
(* and 0.5 s.                                                               *)

SaveInstants == {0, 1}

EarlierFiles == {<<>>, save_credentials(<<>>, "Y", "p1")}

InitSave ==
    /\ auth_flows = <<>>
    /\ heap = <<>>
    /\ servers = <<>>
    /\ now = 0
    /\ instants = SaveInstants
    /\ procs = [p \in Procs |-> [IdleProc EXCEPT !.id = p]]
    /\ files \in EarlierFiles
    /\ nCreate = 0
    /\ nCall = 0
    /\ last = [op |-> "none"]
    /\ auth_tokens = <<>>
    /\ nToken = 0
    /\ threads = IdleThreads
    /\ oauthlib = Unpatched
    /\ stream = IdleStream

SpecSave == InitSave /\ [][Next]_vars

----------------------------------------------------------------------------
(* The store under threads.  The code takes no lock: the listener thread    *)
(* (h) runs do_GET and a thread of the host (s) runs cleanup_expired_flows  *)
(* one statement at a time, and any other thread may run between two of     *)
(* their statements.  create_auth_url and get_auth_status run here          *)
(* without interruption.                                                   *)

Quiet == threads["h"].pc = "idle" /\ threads["s"].pc = "idle"

QuietCreateAuthUrl ==
    /\ Quiet
    /\ CreateAuthUrl(CreatePids, {None}, {"none"})

\* do_GET up to its test `code and state and state in auth_flows`
HandlerReceive ==
    /\ now \in instants
    /\ threads["h"].pc = "idle"
    /\ \E port \in DOMAIN servers, code \in {None, "X"},
          state \in {UnknownState} \cup Range(auth_flows) :
        /\ servers[port] # "closed"
        /\ IF Truthy(code) /\ state # NoState /\ InStore(state)
           THEN /\ threads' = [threads EXCEPT !["h"] =
                        [IdleThread EXCEPT !.pc = "code", !.state = state, !.code = code]]
                /\ last' = [op |-> "none"]
           ELSE /\ threads' = [threads EXCEPT !["h"] = IdleThread]
                /\ last' = [op |-> "callback", status |-> 400, state |-> state, code |-> code]
    /\ UNCHANGED <<stream, oauthlib, auth_flows, heap, servers, now, instants, procs, files, nCreate, nCall,
                   auth_tokens, nToken>>

\* auth_flows[state]['code'] = code; KeyError when the key has gone
HandlerSetCode ==
    /\ threads["h"].pc = "code"
    /\ LET h == threads["h"]
       IN  IF InStore(h.state)
           THEN /\ heap' = [heap EXCEPT ![h.state].code = h.code]
                /\ threads' = [threads EXCEPT !["h"].pc = "flag"]
           ELSE /\ heap' = heap
                /\ threads' = [threads EXCEPT !["h"] = [IdleThread EXCEPT !.raised = TRUE]]
    /\ last' = [op |-> "none"]
    /\ UNCHANGED <<stream, oauthlib, auth_flows, servers, now, instants, procs, files, nCreate, nCall,
                   auth_tokens, nToken>>

\* auth_flows[state]['completed'] = True, then the 200 response
HandlerSetCompleted ==
    /\ threads["h"].pc = "flag"
    /\ LET h == threads["h"]
       IN  IF InStore(h.state)
           THEN /\ heap' = [heap EXCEPT ![h.state].completed = TRUE]
                /\ threads' = [threads EXCEPT !["h"] = IdleThread]
                /\ last' = [op |-> "callback", status |-> 200, state |-> h.state, code |-> h.code]
           ELSE /\ heap' = heap
                /\ threads' = [threads EXCEPT !["h"] = [IdleThread EXCEPT !.raised = TRUE]]
                /\ last' = [op |-> "none"]
    /\ UNCHANGED <<stream, oauthlib, auth_flows, servers, now, instants, procs, files, nCreate, nCall,
                   auth_tokens, nToken>>

\* cleanup_expired_flows: the list states_to_remove, in the order of the dict
SweepBegin ==
    /\ now \in instants
    /\ threads["s"].pc = "idle"
    /\ LET gone == states_to_remove(auth_flows, heap, now)
       IN  threads' = [threads EXCEPT !["s"] =
               [IdleThread EXCEPT !.pc = IF gone = {} THEN "idle" ELSE "sweep",
                                  !.states_to_remove = SelectSeq(auth_flows, LAMBDA k : k \in gone)]]
    /\ last' = [op |-> "none"]
    /\ UNCHANGED <<stream, oauthlib, auth_flows, heap, servers, now, instants, procs, files, nCreate, nCall,
                   auth_tokens, nToken>>

\* one turn of the loop up to flow_data.clear()
SweepClear ==
    /\ threads["s"].pc = "sweep"
    /\ LET s == threads["s"]
           state == Head(s.states_to_remove)
       IN  IF InStore(state) /\ ~heap[state].cleared
           THEN /\ servers' = async_shutdown_server(servers, {heap[state].server})
                /\ heap' = [heap EXCEPT ![state] = ClearedFlow]
                /\ threads' = [threads EXCEPT !["s"].pc = "del", !["s"].state = state]
           ELSE /\ UNCHANGED <<servers, heap>>
                /\ threads' = [threads EXCEPT !["s"] =
                        IF Tail(s.states_to_remove) = <<>> THEN IdleThread
                        ELSE [s EXCEPT !.states_to_remove = Tail(s.states_to_remove)]]
    /\ last' = [op |-> "none"]
    /\ UNCHANGED <<stream, oauthlib, auth_flows, now, instants, procs, files, nCreate, nCall, auth_tokens, nToken>>

\* del auth_flows[state]
SweepDelete ==
    /\ threads["s"].pc = "del"
    /\ LET s == threads["s"]
       IN  /\ auth_flows' = Remove(auth_flows, {s.state})
           /\ threads' = [threads EXCEPT !["s"] =
                   IF Tail(s.states_to_remove) = <<>> THEN IdleThread
                   ELSE [s EXCEPT !.pc = "sweep", !.state = NoState,
                                  !.states_to_remove = Tail(s.states_to_remove)]]
    /\ last' = [op |-> "none"]
    /\ UNCHANGED <<stream, oauthlib, heap, servers, now, instants, procs, files, nCreate, nCall,
                   auth_tokens, nToken>>

\* get_auth_status(project_id): flow_data['project_id'] of a cleared record
\* raises KeyError, and nothing in the function catches it
NoStatus ==
    [raised |-> FALSE, status |-> "not_found", state |-> NoState, created_at |-> 0]

RECURSIVE get_auth_status(_, _, _)
get_auth_status(keys, hp, project_id) ==
    IF keys = <<>> THEN NoStatus
    ELSE LET state == Head(keys)
             flow_data == hp[state]
         IN  IF flow_data.cleared
             THEN [NoStatus EXCEPT !.raised = TRUE, !.status = "KeyError"]
             ELSE IF flow_data.project_id = project_id
             THEN [NoStatus EXCEPT
                      !.status = IF flow_data.completed THEN "completed" ELSE "pending",
                      !.state = state,
                      !.created_at = flow_data.created_at]
             ELSE get_auth_status(Tail(keys), hp, project_id)

GetAuthStatus ==
    /\ now \in instants
    /\ \E project_id \in CreatePids :
        LET answer == get_auth_status(auth_flows, heap, project_id)
        IN  last' = [op |-> "status", project_id |-> project_id, raised |-> answer.raised,
                     status |-> answer.status, state |-> answer.state,
                     created_at |-> answer.created_at]
    /\ UNCHANGED <<stream, oauthlib, auth_flows, heap, servers, now, instants, procs, files, nCreate, nCall,
                   auth_tokens, nToken, threads>>

\* flows are made and called back at 0 s, swept at 600.5 s
ThreadInstants == {0, Sec(EXPIRY_TIME) + 1}

InitThreads ==
    /\ auth_flows = <<>>
    /\ heap = <<>>
    /\ servers = <<>>
    /\ now = 0
    /\ instants = ThreadInstants
    /\ procs = [p \in Procs |-> [IdleProc EXCEPT !.id = p]]
    /\ files = <<>>
    /\ nCreate = 0
    /\ nCall = 0
    /\ last = [op |-> "none"]
    /\ auth_tokens = <<>>
    /\ nToken = 0
    /\ threads = IdleThreads
    /\ oauthlib = Unpatched
    /\ stream = IdleStream

NextThreads ==
    \/ QuietCreateAuthUrl
    \/ HandlerReceive
    \/ HandlerSetCode
    \/ HandlerSetCompleted
    \/ SweepBegin
    \/ SweepClear
    \/ SweepDelete
    \/ GetAuthStatus
    \/ ServerClose
    \/ Tick

SpecThreads == InitThreads /\ [][NextThreads]_vars

\* C19: whenever get_auth_status answers for a flow, it answers "completed"
\* exactly when that flow's code is set: code and completed are seen to
\* change together.
StatusSeesCodeAndFlagTogether ==
    (last.op = "status" /\ ~last.raised /\ last.status # "not_found") =>
        ((last.status = "completed") <=> Truthy(heap[last.state].code))

\* C18: get_auth_status answers with a status on every path, whatever a
\* sweep running in another thread has done to the store.
StatusNeverRaises ==
    last.op = "status" => ~last.raised

----------------------------------------------------------------------------
(* The store near its cap.  The behaviour starts half a second in, with     *)
(* 9 to 12 flows that earlier create_auth_url calls (uuids Older + i) made  *)
(* at 0 s and at 0.5 s, at most MaxAged of them at 0 s.                     *)

Older == 100

MaxAged == 3

EvictCounts == (EVICT_KEEP - 1) .. (EVICT_KEEP + 2)

OlderState(i) == MakeState(None, Older + i)

OlderPort(i) == DEFAULT_CALLBACK_PORT + i - 1

InitEvict ==
    /\ \E n \in EvictCounts, aged \in 0..MaxAged :
        /\ auth_flows = [i \in 1..n |-> OlderState(i)]
        /\ heap = [s \in {OlderState(i) : i \in 1..n} |->
                     LET i == CHOOSE j \in 1..n : OlderState(j) = s
                     IN  NewFlow(None, None, OlderPort(i), IF i <= aged THEN 0 ELSE 1)]
        /\ servers = [port \in {OlderPort(i) : i \in 1..n} |-> "serving"]
    /\ now = 1
    /\ instants = LifecycleInstants
    /\ procs = [p \in Procs |-> [IdleProc EXCEPT !.id = p]]
    /\ files = <<>>
    /\ nCreate = 0
    /\ nCall = 0
    /\ last = [op |-> "none"]
    /\ auth_tokens = <<>>
    /\ nToken = 0
    /\ threads = IdleThreads
    /\ oauthlib = Unpatched
    /\ stream = IdleStream

NextEvict ==
    \/ CreateAuthUrl({None}, {None}, {"none"})
    \/ ServerClose
    \/ MemoryCleanup
    \/ Tick

SpecEvict == InitEvict /\ [][NextEvict]_vars

\* the flows of the store that a sweep at this moment keeps
Unexpired == {s \in Range(auth_flows) : now - heap[s].created_at <= Sec(EXPIRY_TIME)}

\* C11: a memory cleanup that finds more than EVICT_KEEP unexpired flows
\* leaves exactly EVICT_KEEP of them, none older than a dropped one, and
\* no listener of a dropped flow is serving any more; one that finds
\* EVICT_KEEP or fewer leaves them all, unchanged.
EvictionKeepsNewest ==
    [][last'.op = "cleanup" =>
          LET kept == Range(auth_flows')
              dropped == Unexpired \ kept
          IN  IF Cardinality(Unexpired) > EVICT_KEEP
              THEN /\ Len(auth_flows') = EVICT_KEEP
                   /\ Cardinality(kept) = EVICT_KEEP
                   /\ kept \subseteq Unexpired
                   /\ \A k \in kept, d \in dropped :
                         heap[k].created_at >= heap[d].created_at
                   /\ \A d \in dropped : servers'[heap[d].server] # "serving"
              ELSE /\ kept = Unexpired
                   /\ Len(auth_flows') = Cardinality(Unexpired)
                   /\ \A s \in Unexpired :
                         /\ heap'[s] = heap[s]
                         /\ servers'[heap[s].server] = servers[heap[s].server]]_vars

\* C11 case: a cleanup at 600 s has dropped flows made at 0.5 s, not yet
\* expired, to keep ten among which is a flow made at 600 s
EvictedDownToCap ==
    /\ last.op = "cleanup"
    /\ now = Sec(EXPIRY_TIME)
    /\ Len(auth_flows) = EVICT_KEEP
    /\ \E s \in DOMAIN heap : heap[s].cleared
    /\ \E s \in Range(auth_flows) : heap[s].created_at = Sec(EXPIRY_TIME)
    /\ \E s \in Range(auth_flows) : heap[s].created_at = 1

----------------------------------------------------------------------------
(* Properties of the store and its listeners (SpecStore)                   *)

\* C1: once the listener has set a live flow's code, no step changes the
\* code of that flow while it stays in the store; a second callback with
\* another code leaves it as it was.
CodeSetOnce ==
    [][\A s \in Range(auth_flows) \cap Range(auth_flows') :
          Truthy(heap[s].code) => heap'[s].code = heap[s].code]_vars

\* C7: a successful create_auth_url returns a state no flow of the store
\* had before the call, and on return the store holds exactly one flow
\* under it, the record the call made (the sweep inside the call kept it).
CreatedStateUniqueAndStored ==
    [][(nCreate' # nCreate /\ last'.op = "create" /\ last'.success) =>
          /\ last'.state \notin Range(auth_flows)
          /\ Cardinality({i \in 1..Len(auth_flows') : auth_flows'[i] = last'.state}) = 1
          /\ ~heap'[last'.state].cleared
          /\ heap'[last'.state].created_at = now
          /\ heap'[last'.state].callback_port = last'.port]_vars

\* C7 case: a successful create while another flow is in the store
CreatedBesideLiveFlow ==
    /\ last.op = "create" /\ last.success
    /\ Len(auth_flows) = 2
    /\ last.state = auth_flows[2]
    /\ heap[auth_flows[1]].user_session = heap[auth_flows[2]].user_session

\* C8: a callback without a state, with a state that is not in the store,
\* or without a code is answered 400 and changes no flow record and no
\* store entry.
RejectedCallbackChangesNothing ==
    [][(last'.op = "callback" /\ (last'.state = NoState
                                  \/ last'.state \notin Range(auth_flows)
                                  \/ ~Truthy(last'.code))) =>
          (last'.status = 400 /\ heap' = heap /\ auth_flows' = auth_flows
                              /\ servers' = servers)]_vars

\* C8 case: a callback carrying a code and the state of a flow that has
\* been removed, answered 400 while another flow is in the store
CallbackForRemovedFlow ==
    /\ last.op = "callback" /\ last.status = 400
    /\ Truthy(last.code)
    /\ last.state \in DOMAIN heap /\ last.state \notin Range(auth_flows)
    /\ auth_flows # <<>>

FailedStartRegistersNothing ==
    [][(nCreate' # nCreate /\ last'.op = "create" /\ servers' = servers) =>
          (~last'.success /\ auth_flows' = auth_flows /\ heap' = heap)]_vars

\* C16 case: a create_auth_url has failed before any listener was started
\* while a flow is in the store
FailedStartBesideLiveFlow ==
    /\ last.op = "create" /\ ~last.success
    /\ last.port \notin DOMAIN servers
    /\ auth_flows # <<>>

\* C17: every listener that is serving belongs to a flow of the store.
ServingListenerIsOwned ==
    \A port \in DOMAIN servers :
        servers[port] = "serving" => \E s \in Range(auth_flows) : heap[s].server = port

----------------------------------------------------------------------------
(* Properties of the completion calls (Spec)                               *)

Timeouts == {"no_callback", "callback_timeout"}

Ends(p) == procs[p].pc # "done" /\ procs'[p].pc = "done"

\* C2: when a completion call returns because the token exchange or the
\* credential save failed, its flow is no longer in the store and the
\* flow's listener is no longer serving.
FailedCompletionTearsDown ==
    [][\A p \in Procs :
          (Ends(p) /\ procs'[p].result.error = "fetch_failed") =>
              LET s == procs'[p].state
              IN  /\ s \notin Range(auth_flows')
                  /\ ~heap'[s].cleared => servers'[heap'[s].server] # "serving"]_vars

\* C3: a completion call without project id on a flow made without
\* project id, whose code the listener has stored, where the environment
\* probe finds nothing and the exchange and the save do not fail, lists
\* the projects; when the listing has exactly one active project the call
\* succeeds with that project's id, has written one credential file and
\* has removed the flow from the store.  For both entry points.
EndToEndSingleProject ==
    [][\A p \in Procs :
          LET c == procs'[p]
              s == c.state
          IN  (/\ Ends(p)
               /\ ~Truthy(c.arg_pid) /\ c.detected = None
               /\ InStore(s) /\ Truthy(heap[s].code)
               /\ c.result.error # "fetch_failed") =>
                  /\ c.listed
                  /\ (Len(c.user_projects) = 1 /\ Truthy(c.user_projects[1].projectId)) =>
                        /\ c.result.success
                        /\ c.result.project_id = c.user_projects[1].projectId
                        /\ c.saves = 1
                        /\ c.result.file_path \in DOMAIN files'
                        /\ s \notin Range(auth_flows')]_vars

NoDefaultAmong(projects) == \A i \in 1..Len(projects) : ~IsDefaultProject(projects[i])

\* the listing of call p has just answered two active projects, none of
\* them a "default" one
ListedTwoPlain(p) ==
    /\ procs[p].pc = "listing" /\ procs'[p].listed
    /\ Len(procs'[p].user_projects) = 2
    /\ NoDefaultAmong(procs'[p].user_projects)

SelectionRequired(proc) ==
    /\ proc.pc = "done"
    /\ ~proc.result.success
    /\ proc.result.requires_project_selection
    /\ proc.result.available_projects = available_projects(proc.user_projects)
    /\ proc.saves = 0

\* C4 as stated: with two active candidates and no "default" match the
\* call ends with a selection-required result listing both in input
\* order, saves nothing and picks no project.
TwoCandidatesRequireSelection ==
    [][\A p \in Procs :
          ListedTwoPlain(p) => (SelectionRequired(procs'[p]) /\ files' = files
                                /\ heap' = heap)]_vars

\* C4 amended: with two active candidates and no "default" match the call
\* picks the first candidate's id and goes on under it; only when the
\* first candidate has no id does it end with the selection-required
\* result listing both in input order, nothing saved.
TwoCandidatesPickFirst ==
    [][\A p \in Procs :
          ListedTwoPlain(p) =>
              LET first == procs'[p].user_projects[1].projectId
              IN  IF Truthy(first)
                  THEN /\ procs'[p].pc = "enable"
                       /\ procs'[p].project_id = first
                       /\ heap'[procs'[p].state].project_id = first
                       /\ files' = files
                  ELSE /\ SelectionRequired(procs'[p])
                       /\ files' = files /\ heap' = heap]_vars

\* C4 case: a call has saved credentials under the first of two listed
\* candidates, none of which is a "default" one
SavedUnderFirstCandidate ==
    \E p \in Procs :
        /\ procs[p].pc = "done" /\ procs[p].result.success
        /\ procs[p].listed /\ Len(procs[p].user_projects) = 2
        /\ NoDefaultAmong(procs[p].user_projects)
        /\ procs[p].result.project_id = procs[p].user_projects[1].projectId
        /\ procs[p].result.file_path \in DOMAIN files

\* C5: a waiter whose flow is no longer in the store ends at its next
\* poll, and not with the timeout outcome.
RemovedFlowEndsWait ==
    [][\A p \in Procs :
          (/\ procs[p].pc = "wait" /\ ~InStore(procs[p].state)
           /\ procs'[p] # procs[p]) =>
              (procs'[p].pc = "done" /\ procs'[p].result.error \notin Timeouts)]_vars

\* C6: a flow leaves the store only in the step in which a call on it
\* ends in success, or while no call on it is under way; never while a
\* waiter polls for its code.
RemovalOnlyAfterSaveOrAbandon ==
    [][\A s \in Range(auth_flows) \ Range(auth_flows') :
          \/ \E p \in Procs : Ends(p) /\ procs'[p].state = s /\ procs'[p].result.success
          \/ \A p \in Procs : procs[p].state = s => procs[p].pc \in {"idle", "done"}]_vars

----------------------------------------------------------------------------
(* Properties of the waiters (SpecWait)                                    *)

Interval(variant) == IF variant = "sync" THEN SyncInterval ELSE AsyncInterval

WaitBound(variant) == IF variant = "sync" THEN Sec(SYNC_TIMEOUT) ELSE Sec(max_wait_time)

\* C9: a waiter under which the listener stored a code is not still
\* waiting more than one polling interval later and does not end with the
\* timeout outcome; no waiter waits longer than its bound plus one
\* interval.
WaiterReturnsStoredCode ==
    \A p \in Procs :
        LET c == procs[p]
        IN  /\ (c.pc = "wait" /\ c.stored_at # Never) => now - c.stored_at <= Interval(c.variant)
            /\ (c.pc = "done" /\ c.result.error \in Timeouts) => c.stored_at = Never
            /\ c.pc = "wait" => now - c.start <= WaitBound(c.variant) + Interval(c.variant)

\* C15: a completion that succeeds has written its credential to a file
\* that did not exist before, and every file that existed is as it was.
SaveNeverOverwrites ==
    [][\A p \in Procs :
          (Ends(p) /\ procs'[p].result.success) =>
              /\ procs'[p].result.file_path \notin DOMAIN files
              /\ \A f \in DOMAIN files : f \in DOMAIN files' /\ files'[f] = files[f]]_vars

InPatchedSection(p) == procs[p].pc \in {"listing", "enable"}

\* C21: whenever no completion call is between its patch of
\* validate_token_parameters and its finally clause, validate_token_parameters
\* is the library's own function.
LibraryRestoredWhenIdle ==
    (\A p \in Procs : ~InPatchedSection(p)) => oauthlib.validate_token_parameters = <<>>

\* C22: the step in which a waiting asyncio_complete_auth_flow is cancelled
\* leaves the store, every flow record and every listener as they were; the
\* flow the call waited for is still in the store if it was.
CancelLeavesFlowIntact ==
    [][\A p \in Procs :
          (procs[p].pc = "wait" /\ procs'[p].pc = "cancelled") =>
              /\ auth_flows' = auth_flows
              /\ heap' = heap
              /\ servers' = servers
              /\ InStore(procs[p].state) => procs[p].state \in Range(auth_flows')]_vars

\* C22 case: a call was cancelled while it waited for a flow's code, and a
\* later call on the same flow has succeeded
CompletedAfterCancel ==
    \E p, q \in Procs :
        /\ procs[p].pc = "cancelled"
        /\ procs[q].pc = "done" /\ procs[q].result.success
        /\ procs[q].state = procs[p].state

Recoverable(result) ==
    \/ result.error \in Timeouts
    \/ result.requires_manual_project_id
    \/ result.requires_project_selection

DefaultInId == {PDef}

\* the candidates with "default", in any letter case, in their id or in
\* their display name
DefaultInIdOrName == {PDef, PNamed}

Positions(projects, marked) == {i \in DOMAIN projects : projects[i] \in marked}

\* C24 as stated: of three candidates of which exactly one has "default" in
\* its id, that one is selected.
DefaultIdSelected ==
    (last.op = "select" /\ Len(last.projects) = 3
        /\ Cardinality(Positions(last.projects, DefaultInId)) = 1) =>
        \A i \in Positions(last.projects, DefaultInId) :
            last.project_id = last.projects[i].projectId

\* C24: of three candidates of which exactly one has "default", in any
\* letter case, in its id or its display name, that one is selected,
\* whatever its position.
DefaultIdOrNameSelected ==
    (last.op = "select" /\ Len(last.projects) = 3
        /\ Cardinality(Positions(last.projects, DefaultInIdOrName)) = 1) =>
        \A i \in Positions(last.projects, DefaultInIdOrName) :
            last.project_id = last.projects[i].projectId

\* C24 case: the only candidate with "default" is the last of three, its
\* id has the word in mixed case, and it has been selected
DefaultSelectedInLastPlace ==
    /\ last.op = "select" /\ Len(last.projects) = 3
    /\ Positions(last.projects, DefaultInIdOrName) = {3}
    /\ last.projects[3] = PDef
    /\ last.project_id = PDef.projectId

\* C25: a completion call that lists the projects (no project id is known)
\* and gets no active project ends without success, flagged
\* requires_manual_project_id, and has written no credential file.
ZeroProjectsNeedManualId ==
    [][\A p \in Procs :
          (Ends(p) /\ procs'[p].listed /\ procs'[p].user_projects = <<>>) =>
              /\ ~procs'[p].result.success
              /\ procs'[p].result.requires_manual_project_id
              /\ ~procs'[p].result.requires_project_selection
              /\ procs'[p].saves = 0
              /\ files' = files]_vars

\* C25 case: a call on a flow whose code arrived has listed the projects,
\* got none and asked for a project id; nothing is saved
AskedForIdAfterEmptyListing ==
    \E p \in Procs :
        /\ procs[p].pc = "done" /\ procs[p].listed /\ procs[p].user_projects = <<>>
        /\ procs[p].result.requires_manual_project_id
        /\ Truthy(procs[p].auth_code)
        /\ files = <<>>

WaitersAgree ==
    last.op = "waiters" => last.blocking = last.cooperative

\* C28: while a blocking completion waits for its callback, a cooperative
\* completion on the same event loop that sleeps in its wait loop is not
\* passed over: time does not go beyond its wake-up time before it has run.
LoopProgressDuringBlockingWait ==
    [][\A p \in Procs, q \in Procs :
          (/\ procs[q].variant = "sync" /\ procs[q].pc = "wait"
           /\ procs[p].variant = "async" /\ procs[p].pc = "wait" /\ procs[p].waited > 0
           /\ now' > now)
          => now' <= procs[p].wake]_vars

\* C29: the authorization code of a flow goes to the token endpoint at most
\* once: no call submits the code of a flow (its fetch_token returns or
\* raises) when another call has already submitted the code of that flow.
CodeSubmittedOnce ==
    [][\A p \in Procs :
          (procs[p].pc = "exchange" /\ procs'[p].pc # "exchange")
          => \A q \in Procs \ {p} :
                ~(/\ procs[q].state = procs[p].state
                  /\ procs[q].auth_code = procs[p].auth_code
                  /\ procs[q].pc \in {"listing", "enable", "done"})]_vars

\* the places in the store of the flows that a lookup for project_id tests
\* (project_id None: the flows with automatic project detection)
Matching(keys, hp, project_id) ==
    {i \in 1..Len(keys) : Matches(hp[keys[i]], project_id)}

Preferred(keys, hp, among, user_session) ==
    LET mine == {i \in among : Truthy(user_session) /\ hp[keys[i]].user_session = user_session}
    IN  IF mine # {} THEN keys[Min(mine)]
        ELSE IF among # {} THEN keys[Min(among)]
        ELSE NoState

\* C30: a completion call selects, among the flows of the given project id,
\* the first one whose session is the caller's session when there is one,
\* and the first one in insertion order otherwise; when no project id is
\* given or no flow has it, the same among the flows with automatic project
\* detection.
LookupPrefersSession ==
    [][\A p \in Procs :
          (procs[p].pc = "idle" /\ procs'[p].pc # "idle")
          => LET project_id == procs'[p].arg_pid
                 user_session == procs'[p].user_session
                 byProject == IF Truthy(project_id)
                              THEN Matching(auth_flows, heap, project_id) ELSE {}
             IN  procs'[p].state =
                     IF byProject # {}
                     THEN Preferred(auth_flows, heap, byProject, user_session)
                     ELSE Preferred(auth_flows, heap, Matching(auth_flows, heap, None),
                                    user_session)]_vars

\* a call with a project id and a session has selected the second flow of
\* that project, whose session is the caller's, past a first flow of another
\* session
SessionFlowSelectedPastFirst ==
    \E p \in Procs :
        /\ procs[p].pc \notin {"idle", "done"}
        /\ Truthy(procs[p].arg_pid) /\ Truthy(procs[p].user_session)
        /\ Len(auth_flows) = 2
        /\ procs[p].state = auth_flows[2]
        /\ heap[auth_flows[1]].project_id = procs[p].arg_pid
        /\ heap[auth_flows[2]].project_id = procs[p].arg_pid
        /\ heap[auth_flows[1]].user_session # procs[p].user_session
        /\ heap[auth_flows[2]].user_session = procs[p].user_session

\* C31: a call whose project id no flow has selects, by the session
\* preference, a flow with automatic project detection and does not start the
\* environment detection; a successful call with a project id on such a flow
\* has saved the credential under the caller's project id, with neither the
\* environment detection nor the project listing asked.
FallThroughUsesGivenProject ==
    [][\A p \in Procs :
          /\ (/\ procs[p].pc = "idle" /\ procs'[p].pc # "idle"
              /\ Truthy(procs'[p].arg_pid)
              /\ Matching(auth_flows, heap, procs'[p].arg_pid) = {})
             => /\ procs'[p].state = Preferred(auth_flows, heap,
                                               Matching(auth_flows, heap, None),
                                               procs'[p].user_session)
                /\ procs'[p].pc # "detect"
          /\ (/\ procs[p].pc # "done" /\ procs'[p].pc = "done"
              /\ procs'[p].result.success
              /\ Truthy(procs[p].arg_pid)
              /\ heap[procs[p].state].auto_project_detection)
             => /\ procs'[p].result.project_id = procs[p].arg_pid
                /\ procs'[p].result.file_path \in DOMAIN files'
                /\ procs'[p].result.file_path[1] = procs[p].arg_pid
                /\ files'[procs'[p].result.file_path].project_id = procs[p].arg_pid
                /\ procs'[p].detected = "unasked"
                /\ ~procs'[p].listed]_vars

\* a call with a project id has succeeded on a flow with automatic project
\* detection that never had this project id
FallThroughSaved ==
    \E p \in Procs :
        /\ procs[p].pc = "done"
        /\ procs[p].result.success
        /\ Truthy(procs[p].arg_pid)
        /\ heap[procs[p].state].auto_project_detection
        /\ heap[procs[p].state].project_id # procs[p].arg_pid
        /\ procs[p].result.file_path \in DOMAIN files

\* C32: a callback request changes only the flow of the listener that
\* received it: the record of a flow changes in a callback step only when the
\* request came in on that flow's port.
CallbackChangesOwnFlowOnly ==
    [][(last'.op = "callback" /\ heap' # heap)
          => \A s \in DOMAIN heap :
                heap'[s] # heap[s] => heap[s].server = last'.port]_vars

\* the environment detection of call p gave a project id
DetectedId(p) == procs[p].detected # "unasked" /\ Truthy(procs[p].detected)

\* C33: the environment detection answers with the project id of the
\* metadata endpoint when it has one and with the gcloud configuration
\* otherwise; a call asks for the project listing only after the detection
\* was tried and gave nothing; when the detection gave an id, the listing is
\* not asked and a successful call has saved the credential under that id.
DetectionBeforeListing ==
    /\ \A meta \in MetaAnswers, gcloud \in GcloudAnswers :
           /\ meta # None => auto_detect_project_id(meta, gcloud) = meta
           /\ (meta = None /\ gcloud \notin {None, "(unset)"})
                  => auto_detect_project_id(meta, gcloud) = gcloud
    /\ \A p \in Procs :
           /\ procs[p].listed => (procs[p].detected # "unasked" /\ ~DetectedId(p))
           /\ DetectedId(p)
                 => /\ ~procs[p].listed
                    /\ (procs[p].pc = "done" /\ procs[p].result.success)
                          => /\ procs[p].result.project_id = procs[p].detected
                             /\ procs[p].result.file_path \in DOMAIN files
                             /\ files[procs[p].result.file_path].project_id = procs[p].detected

\* a call without a project id has succeeded with the id of the metadata
\* endpoint, the gcloud configuration and the listing not used
SavedUnderDetectedId ==
    \E p \in Procs :
        /\ procs[p].pc = "done" /\ procs[p].result.success
        /\ procs[p].arg_pid = None
        /\ procs[p].detected = "pm"
        /\ ~procs[p].listed
        /\ procs[p].result.file_path[1] = "pm"

\* C34: a cooperative completion that succeeds does so on the return of
\* enable_required_apis, called for the project id it then saves under; a
\* blocking completion never calls it; and a call whose enablement failed
\* still succeeds unless the save itself fails.
EnablementBeforeSaveNeverFatal ==
    [][\A p \in Procs :
          /\ procs'[p].variant = "sync" => procs'[p].apis = "uncalled"
          /\ (procs[p].pc # "done" /\ procs'[p].pc = "done" /\ procs'[p].result.success
                /\ procs'[p].variant = "async")
             => /\ procs[p].pc = "enable"
                /\ procs'[p].apis \in {"enabled", "failed"}
                /\ procs'[p].result.project_id = procs[p].project_id
          /\ (procs[p].pc = "enable" /\ procs'[p].pc # "enable")
             => /\ procs'[p].pc = "done"
                /\ procs'[p].result.success \/ procs'[p].result.cause = "persist"
                /\ procs'[p].result.success => procs'[p].result.file_path \in DOMAIN files']_vars

\* a cooperative completion has succeeded although its enablement failed
SucceededWithFailedEnablement ==
    \E p \in Procs :
        /\ procs[p].pc = "done" /\ procs[p].result.success
        /\ procs[p].variant = "async"
        /\ procs[p].apis = "failed"

LowestFreePortElseOsPort ==
    last.op = "find_port" =>
        LET free == ScanPorts \ last.taken
        IN  IF free # {}
            THEN \E port \in free : /\ last.ports = {port}
                                    /\ \A other \in free : port <= other
            ELSE /\ last.ports \cap (ScanPorts \cup last.taken) = {}
                 /\ last.ports = {} <=> OsPorts \subseteq last.taken

\* with the hundred ports of the range bound, the allocator came back with a
\* port of the OS
OsPortAfterFullRange ==
    /\ last.op = "find_port"
    /\ ScanPorts \subseteq last.taken
    /\ last.ports # {}

\* the tokens of the table older than TOKEN_EXPIRY seconds
Aged(tokens, t) == {k \in DOMAIN tokens : t - tokens[k] > Sec(TOKEN_EXPIRY)}

\* C37: a verification leaves the token table as it is but for the verified
\* token when that token is in the table and expired; an invalidation takes
\* out the given token and nothing else, and changes nothing for a token that
\* is not in the table; an issue takes out exactly the expired tokens and
\* puts in exactly one token that was not in the table.  No step changes the
\* issue time of a token that stays.
TokenStoreFrame ==
    [][/\ \A k \in DOMAIN auth_tokens \cap DOMAIN auth_tokens' : auth_tokens'[k] = auth_tokens[k]
       /\ last'.op = "verify" =>
             DOMAIN auth_tokens' = DOMAIN auth_tokens \ ({last'.token} \cap Aged(auth_tokens, now))
       /\ last'.op = "invalidate" =>
             /\ DOMAIN auth_tokens' = DOMAIN auth_tokens \ {last'.token}
             /\ last'.token \notin DOMAIN auth_tokens => auth_tokens' = auth_tokens
       /\ last'.op = "token" =>
             /\ last'.token \notin DOMAIN auth_tokens
             /\ DOMAIN auth_tokens' =
                    (DOMAIN auth_tokens \ Aged(auth_tokens, now)) \cup {last'.token}
       /\ last'.op \notin {"verify", "invalidate", "token"} => auth_tokens' = auth_tokens]_vars

\* an issue at 21600.5 s has just put the second token into the table, from
\* which the token issued at 0 s is gone
IssuedAfterSweepingExpired ==
    /\ last.op = "token" /\ last.token = 2
    /\ now = Sec(TOKEN_EXPIRY) + 1
    /\ DOMAIN auth_tokens = {2}

\* C38: the first item of the stream is a heartbeat; a later heartbeat is
\* yielded only while the request task is not done; and a generator that
\* ends without having been cancelled or closed has yielded heartbeats, then
\* exactly one content or error chunk, then exactly one [DONE] item.
HeartbeatsThenOneChunkThenDone ==
    [][/\ stream'.items # <<>> => stream'.items[1] = "heartbeat"
       /\ (/\ Len(stream'.items) > Len(stream.items) /\ Len(stream.items) > 0
           /\ stream'.items[Len(stream'.items)] = "heartbeat")
          => ~TaskDone(stream.task) /\ ~TaskDone(stream'.task)
       /\ (stream'.pc = "ended" /\ ~stream'.cancelled)
          => LET n == Len(stream'.items)
             IN  /\ n >= 3
                 /\ stream'.items[n] = "done"
                 /\ stream'.items[n - 1] \in {"content", "error"}
                 /\ \A i \in 1..(n - 2) : stream'.items[i] = "heartbeat"]_vars

\* the generator has ended after an upstream exception that came after a
\* second heartbeat
EndedAfterUpstreamException ==
    /\ stream.pc = "ended" /\ ~stream.cancelled
    /\ stream.task = "raised"
    /\ stream.items = <<"heartbeat", "heartbeat", "error", "done">>

\* C39: when the generator has ended, by its end, by a cancellation or by
\* being closed, its request task is not running any more.
RequestTaskEndsWithGenerator ==
    stream.pc \in {"ended", "cancelled", "closed"} => stream.task # "running"

\* the requests among the events of a retry loop
Sends(events) == {i \in 1..Len(events) : events[i] = "send"}

\* the loop sends at most max_attempts requests, one after each sleep and no
\* sleep after the last; it stops at the first answer with an image and not
\* before
RetryLoopShape(r) ==
    LET sends == Cardinality(Sends(r.events))
        images == {i \in 1..r.max_attempts : r.responses[i] = "image"}
    IN  /\ sends <= r.max_attempts
        /\ \A i \in 1..Len(r.events) : r.events[i] = IF i % 2 = 1 THEN "send" ELSE "sleep"
        /\ r.events # <<>> => r.events[Len(r.events)] = "send"
        /\ sends = IF images # {} THEN Min(images) ELSE r.max_attempts

\* the attempts of an exhausted loop whose answer was decoded
Decoded(r) == {i \in 1..r.max_attempts : r.responses[i] # "garbage"}

Latest(S) == CHOOSE x \in S : \A y \in S : y <= x

====
